---- MODULE Spec2Model ----
(***************************************************************************)
(* Zone detection and label association of utils/zone_detector.py:         *)
(* group_contiguous_cells (flood fill of the zone-colored cells), the two  *)
(* directional walks find_horizontal_labels_alternating (upward) and       *)
(* find_vertical_labels_alternating (leftward), the per-zone resolver      *)
(* find_labels_with_alternating_pairs and the driver                       *)
(* detect_zones_with_alternating_pairs.                                    *)
(*                                                                         *)
(* A cell is the pair <<row, col>> of its 1-based coordinates; the value   *)
(* of a cell is opaque to every function modelled here and is left out.    *)
(***************************************************************************)
EXTENDS Integers, Sequences, FiniteSets, TLC

\* ------------------------------------------------------------------ bounds
\* Grid of the cell lists handed to group_contiguous_cells.
MaxRow == 2
MaxCol == 3
\* Longest cell list handed to group_contiguous_cells.
MaxCells == 4
\* Number of color pairs of the palette.
MaxPairs == 2
\* Largest number of cells on the two scan axes of a walked cell together.
MaxDist == 4

\* Largest max_gap merge_zones is called with.
MaxGap == 1
\* Side of the grid in which the boxes of hand-made zone lists lie.
MaxBox == 3
\* Largest amount by which the ids of a hand-made zone list exceed 1..N.
MaxIdShift == 1
\* Largest number of times the merge button is pressed in a row.
MaxPasses == 3

\* Number of workbooks the user may load.
MaxBooks == 2
\* Largest value of the number input of the palette form.
MaxNumPairs == 2
\* Largest number of cells of an exported zone.
MaxExportCells == 2

VARIABLES
    entry,              \* the function the run was started on
    pc,                 \* position of the run
    \* --- inputs
    color_cells,        \* color key -> list of cells (the Color Index)
    color_palette,      \* [zone_color, label_pairs]
    \* --- group_contiguous_cells
    cells,              \* its argument
    i,                  \* index of the for loop over cells (1-based)
    visited,            \* set of (row, col)
    stack,              \* DFS stack
    zone_cells,         \* cells of the zone being filled
    zones,              \* result list
    \* --- detect_zones_with_alternating_pairs / find_labels_with_alternating_pairs
    label_cells_by_pair,
    zi,                 \* index of the zone being resolved
    ci,                 \* index of the zone cell being resolved
    label_map,          \* (row, col) -> label
    processed,          \* keys already added
    labels,             \* label list of the zone being resolved
    horizontal_labels,  \* result of the upward walk of the current cell
    vertical_labels,    \* result of the leftward walk of the current cell
    \* --- the walk in progress
    wrow, wcol,         \* arguments row, col
    check,              \* loop variable check_row / check_col
    current_pair_id,    \* None is NoPair
    wlabels,            \* labels collected so far
    wbroke,             \* the loop was left by break
    \* --- history (not program state)
    inspected,          \* positions the walk in progress looked up in label_map
    wsteps,             \* loop iterations the walk in progress executed
    sighted,            \* every label the walks returned for the zone being resolved
    \* --- merge_zones (its argument is zones)
    max_gap,            \* argument max_gap
    merged,             \* result list being built
    used,               \* indices of the zones already absorbed (1-based)
    mi, mj,             \* indices of the outer and the inner loop (1-based)
    merged_zone,        \* the dict being filled
    merge_result,       \* the list merge_zones returned
    adjacent,           \* the last call of are_zones_adjacent and its value
    \* --- history (not program state)
    zones0,             \* the zone list as it was passed to merge_zones
    absorbed,           \* per output zone, the indices of the input zones in it
    counts,             \* zone count before the first pass and after each pass
    \* --- st.session_state (main.py); color_palette is the one above
    uploaded_file,      \* value of the file uploader, 0 is None
    workbook,           \* the workbook loaded last, 0 is None
    detected_colors,    \* colors the last analysis found
    all_sheets_color_cells, \* sheet name -> Color Index
    all_sheets_zones,   \* sheet name -> detection result
    label_pairs,        \* pairs of the palette validated last
    \* --- history (not program state)
    files,              \* the workbooks the user has: id -> [sheets, colors]
    num_pairs,          \* number input of the form, when the last run validated it
    validation,         \* outcome of the validation, when the last run pressed it
    \* --- the export (its arguments are zones and color_palette)
    json_text,          \* the text the export function returned
    reread              \* what json.loads makes of it

inputVars == <<color_cells, color_palette>>
groupVars == <<cells, i, visited, stack, zone_cells, zones>>
labelVars == <<label_cells_by_pair, zi, ci, label_map, processed, labels,
               horizontal_labels, vertical_labels>>
walkVars  == <<wrow, wcol, check, current_pair_id, wlabels, wbroke,
               inspected, wsteps>>
mergeVars == <<max_gap, merged, used, mi, mj, merged_zone, merge_result,
               adjacent, zones0, absorbed, counts>>
sessionVars == <<uploaded_file, workbook, detected_colors,
                 all_sheets_color_cells, all_sheets_zones, label_pairs,
                 files, num_pairs, validation>>
exportVars == <<json_text, reread>>
vars == <<entry, pc, inputVars, groupVars, labelVars, walkVars, sighted,
          mergeVars, sessionVars, exportVars>>

\* ----------------------------------------------------------------- helpers
Grid == (1..MaxRow) \X (1..MaxCol)

Row(c) == c[1]
Col(c) == c[2]

Abs(x) == IF x < 0 THEN -x ELSE x

Range(s) == {s[k] : k \in DOMAIN s}

RECURSIVE MinOf(_)
MinOf(S) ==
    LET x == CHOOSE y \in S : TRUE
    IN IF S = {x} THEN x
       ELSE LET m == MinOf(S \ {x}) IN IF x < m THEN x ELSE m

RECURSIVE MaxOf(_)
MaxOf(S) ==
    LET x == CHOOSE y \in S : TRUE
    IN IF S = {x} THEN x
       ELSE LET m == MaxOf(S \ {x}) IN IF x > m THEN x ELSE m

\* All sequences of pairwise distinct elements of S of length at most n.
RECURSIVE DistinctSeqs(_, _)
DistinctSeqs(S, n) ==
    IF n = 0 THEN {<<>>}
    ELSE LET shorter == DistinctSeqs(S, n - 1)
         IN shorter \cup
            {Append(s, x) : <<s, x>> \in
                {p \in shorter \X S : Len(p[1]) = n - 1 /\ p[2] \notin Range(p[1])}}

\* The value None of current_pair_id.
NoPair == -1

\* ================================================= group_contiguous_cells
\* Adjacency that also accepts diagonal contact.
AdjacentWithDiagonal(c, cell) ==
    /\ c # cell
    /\ Abs(Row(c) - Row(cell)) <= 1
    /\ Abs(Col(c) - Col(cell)) <= 1

\* Adjacency that only looks along the row.
AdjacentInRowOnly(c, cell) ==
    Abs(Col(c) - Col(cell)) = 1 /\ Row(c) = Row(cell)

\* The adjacency test of get_neighbors: orthogonal contact only.
Adjacent(c, cell) ==
    \/ (Abs(Row(c) - Row(cell)) = 1 /\ Col(c) = Col(cell))
    \/ (Abs(Col(c) - Col(cell)) = 1 /\ Row(c) = Row(cell))

\* A neighbour search that gives up after the first neighbour it finds.
get_first_neighbor(cell, all_cells, vis) ==
    LET found == SelectSeq(all_cells, LAMBDA c : c \notin vis /\ Adjacent(c, cell))
    IN IF found = <<>> THEN <<>> ELSE <<found[1]>>

\* get_neighbors(cell, all_cells), reading the closure variable visited.
get_neighbors(cell, all_cells, vis) ==
    SelectSeq(all_cells, LAMBDA c : c \notin vis /\ Adjacent(c, cell))

\* The four limits of a list of cells.
BoundsOf(zc) ==
    [min_row |-> MinOf({Row(c) : c \in Range(zc)}),
     max_row |-> MaxOf({Row(c) : c \in Range(zc)}),
     min_col |-> MinOf({Col(c) : c \in Range(zc)}),
     max_col |-> MaxOf({Col(c) : c \in Range(zc)})]

\* A zone record whose bounds are those of its first cell alone.
MakeZoneBoundsOfFirstCell(zc, n) ==
    [id         |-> n + 1,
     cells      |-> zc,
     bounds     |-> BoundsOf(<<zc[1]>>),
     cell_count |-> Len(zc),
     labels     |-> <<>>]

\* A zone record numbered from zero.
MakeZoneIdFromZero(zc, n) ==
    [id         |-> n,
     cells      |-> zc,
     bounds     |-> BoundsOf(zc),
     cell_count |-> Len(zc),
     labels     |-> <<>>]

\* A zone record that counts the cells of its bounding box.
MakeZoneCountsBox(zc, n) ==
    LET b == BoundsOf(zc)
    IN [id         |-> n + 1,
        cells      |-> zc,
        bounds     |-> b,
        cell_count |-> (b.max_row - b.min_row + 1) * (b.max_col - b.min_col + 1),
        labels     |-> <<>>]

\* The zone record appended once the stack is empty.
MakeZone(zc, n) ==
    [id         |-> n + 1,
     cells      |-> zc,
     bounds     |-> BoundsOf(zc),
     cell_count |-> Len(zc),
     labels     |-> <<>>]

\* Where the run goes when group_contiguous_cells returns.
AfterGroup ==
    IF entry = "detect" THEN "resolve"
    ELSE IF entry = "merge" THEN "labels" ELSE "done"

\* `if not cells: return []`
GroupEmpty ==
    /\ pc = "group"
    /\ cells = <<>>
    /\ pc' = AfterGroup
    /\ UNCHANGED <<exportVars, sessionVars, entry, inputVars, groupVars, labelVars, walkVars, sighted>>
    /\ UNCHANGED mergeVars

\* One iteration of `for i, cell in enumerate(cells)` up to the while loop.
GroupNextCell ==
    /\ pc = "group"
    /\ cells # <<>>
    /\ i <= Len(cells)
    /\ IF cells[i] \notin visited
       THEN /\ zone_cells' = <<>>
            /\ stack' = <<cells[i]>>
            /\ pc' = "dfs"
            /\ i' = i
       ELSE /\ i' = i + 1
            /\ UNCHANGED <<zone_cells, stack, pc>>
    /\ UNCHANGED <<exportVars, sessionVars, entry, inputVars, cells, visited, zones, labelVars, walkVars, sighted>>
    /\ UNCHANGED mergeVars

\* A pop that never skips.
AlreadyVisitedIgnored(current, vis) == FALSE

\* `if (current['row'], current['col']) in visited: continue`
AlreadyVisited(current, vis) == current \in vis

\* One iteration of `while stack`.
GroupPop ==
    /\ pc = "dfs"
    /\ stack # <<>>
    /\ LET current == stack[Len(stack)]
           rest    == SubSeq(stack, 1, Len(stack) - 1)
       IN IF AlreadyVisited(current, visited)
          THEN /\ stack' = rest
               /\ UNCHANGED <<visited, zone_cells>>
          ELSE /\ visited' = visited \cup {current}
               /\ zone_cells' = Append(zone_cells, current)
               /\ stack' = rest \o get_neighbors(current, cells, visited')
    /\ UNCHANGED <<exportVars, sessionVars, entry, pc, inputVars, cells, i, zones, labelVars, walkVars, sighted>>
    /\ UNCHANGED mergeVars

\* The stack is empty: bounds, zones.append, next iteration of the for loop.
GroupAppendZone ==
    /\ pc = "dfs"
    /\ stack = <<>>
    /\ zones' = IF zone_cells # <<>>
                THEN Append(zones, MakeZone(zone_cells, Len(zones)))
                ELSE zones
    /\ i' = i + 1
    /\ pc' = "group"
    /\ UNCHANGED <<exportVars, sessionVars, entry, inputVars, cells, visited, stack, zone_cells,
                   labelVars, walkVars, sighted>>
    /\ UNCHANGED mergeVars

\* `return zones`
GroupReturn ==
    /\ pc = "group"
    /\ cells # <<>>
    /\ i > Len(cells)
    /\ pc' = AfterGroup
    /\ UNCHANGED <<exportVars, sessionVars, entry, inputVars, groupVars, labelVars, walkVars, sighted>>
    /\ UNCHANGED mergeVars

\* The variables no run of group_contiguous_cells alone touches.
IdleInputs ==
    /\ color_cells = <<>>
    /\ color_palette = <<>>

IdleLabels ==
    /\ label_cells_by_pair = <<>>
    /\ zi = 1
    /\ ci = 1
    /\ label_map = <<>>
    /\ processed = {}
    /\ labels = <<>>
    /\ horizontal_labels = <<>>
    /\ vertical_labels = <<>>
    /\ sighted = <<>>

IdleWalk ==
    /\ wrow = 0
    /\ wcol = 0
    /\ check = 0
    /\ current_pair_id = NoPair
    /\ wlabels = <<>>
    /\ wbroke = FALSE
    /\ inspected = {}
    /\ wsteps = 0

IdleMerge ==
    /\ max_gap = 0
    /\ merged = <<>>
    /\ used = {}
    /\ mi = 1
    /\ mj = 1
    /\ merged_zone = <<>>
    /\ merge_result = <<>>
    /\ adjacent = <<>>
    /\ zones0 = <<>>
    /\ absorbed = <<>>
    /\ counts = <<>>

\* No export has been made.
IdleExport ==
    /\ json_text = <<>>
    /\ reread = <<>>

\* init_session_state (main.py, lines 59-80).
IdleSession ==
    /\ uploaded_file = 0
    /\ workbook = 0
    /\ detected_colors = {}
    /\ all_sheets_color_cells = <<>>
    /\ all_sheets_zones = <<>>
    /\ label_pairs = <<>>
    /\ files = <<>>
    /\ num_pairs = 0
    /\ validation = "none"

GroupStart(cs) ==
    /\ cells = cs
    /\ i = 1
    /\ visited = {}
    /\ stack = <<>>
    /\ zone_cells = <<>>
    /\ zones = <<>>

\* group_contiguous_cells on any list of cells with distinct coordinates.
InitGroup ==
    /\ entry = "group"
    /\ pc = "group"
    /\ \E cs \in DistinctSeqs(Grid, MaxCells) : GroupStart(cs)
    /\ IdleInputs /\ IdleLabels /\ IdleWalk
    /\ IdleMerge
    /\ IdleSession
    /\ IdleExport

NextGroup ==
    \/ GroupEmpty
    \/ GroupNextCell
    \/ GroupPop
    \/ GroupAppendZone
    \/ GroupReturn

SpecGroup == InitGroup /\ [][NextGroup]_vars

\* ======================================================= the two walks
PairIds == 0..(MaxPairs - 1)

\* The color keys of a validated palette: pairwise distinct.
h_color(p) == <<"H", p>>
v_color(p) == <<"V", p>>
zone_color == <<"Z", 0>>

\* An entry of label_map (zone_detector.py, lines 84-89 and 95-100).
MapEntry(pos, p, dir) ==
    [row |-> pos[1], col |-> pos[2], pair_id |-> p, direction |-> dir,
     color |-> IF dir = "horizontal" THEN h_color(p) ELSE v_color(p)]

\* The record the upward walk appends (lines 171-181 and 187-197).
HorizontalLabel(label, dist) ==
    [row |-> label.row, col |-> label.col,
     type |-> <<"h_pair", label.pair_id>>, position |-> "top",
     direction |-> "horizontal", pair_id |-> label.pair_id,
     distance |-> dist, color |-> label.color]

\* The record the leftward walk appends (lines 225-235 and 239-249).
VerticalLabel(label, dist) ==
    [row |-> label.row, col |-> label.col,
     type |-> <<"v_pair", label.pair_id>>, position |-> "left",
     direction |-> "vertical", pair_id |-> label.pair_id,
     distance |-> dist, color |-> label.color]

\* The record a walk collecting the role own appends.
WalkLabel(own, label, dist) ==
    IF own = "horizontal" THEN HorizontalLabel(label, dist)
    ELSE VerticalLabel(label, dist)

\* A stop test that fires on the opposite role of any pair.
StopsOnAnyPair(label, opposite, cur) == label.direction = opposite

\* The elif of both walks: a label of the opposite role whose pair is the
\* current pair ends the walk.
StopsWalk(label, opposite, cur) ==
    label.direction = opposite /\ label.pair_id = cur

\* A walk that keeps only the labels of the pair of its first label.
CollectSamePairOnly(wl, label, cur, rec) ==
    IF cur = NoPair \/ label.pair_id = cur
    THEN [labels |-> Append(wl, rec), current_pair_id |-> label.pair_id]
    ELSE [labels |-> wl, current_pair_id |-> cur]

\* The inner if/else of both walks on a label of the walk's own role: the
\* else branch (`Changement de paire, on continue`) appends the label and
\* makes its pair the current pair, as the if branch does.
Collect(wl, label, cur, rec) ==
    IF cur = NoPair \/ label.pair_id = cur
    THEN [labels |-> Append(wl, rec), current_pair_id |-> label.pair_id]
    ELSE [labels |-> Append(wl, rec), current_pair_id |-> label.pair_id]

\* The distance of the inspected cell to the sheet edge.
DistanceToEdge(from, at) == at

\* `row - check_row`, `col - check_col`
Distance(from, at) == from - at

\* range(row - 1, 0, -1), range(col - 1, 0, -1): the first value.
FirstCheck(from) == from - 1

\* A loop bound that ends the walk before the first row or column.
InRangeAboveOne(k) == k > 1

\* A loop bound that lets the walk reach index 0.
InRangeWithZero(k) == k >= 0

\* range(..., 0, -1) stops before 0.
InRange(k) == k > 0

StartWalk(r, c, first) ==
    /\ wrow' = r
    /\ wcol' = c
    /\ check' = first
    /\ current_pair_id' = NoPair
    /\ wlabels' = <<>>
    /\ wbroke' = FALSE
    /\ inspected' = {}
    /\ wsteps' = 0

\* One iteration of the for loop of either walk at position pos.
WalkBody(pos, own, opposite, dist) ==
    /\ inspected' = inspected \cup {pos}
    /\ wsteps' = wsteps + 1
    /\ IF pos \in DOMAIN label_map
       THEN LET label == label_map[pos]
            IN IF label.direction = own
               THEN LET got == Collect(wlabels, label, current_pair_id,
                                       WalkLabel(own, label, dist))
                    IN /\ wlabels' = got.labels
                       /\ current_pair_id' = got.current_pair_id
                       /\ wbroke' = FALSE
               ELSE /\ wbroke' = StopsWalk(label, opposite, current_pair_id)
                    /\ UNCHANGED <<wlabels, current_pair_id>>
       ELSE /\ wbroke' = FALSE
            /\ UNCHANGED <<wlabels, current_pair_id>>
    /\ check' = IF wbroke' THEN check ELSE check - 1
    /\ UNCHANGED <<wrow, wcol>>

\* find_horizontal_labels_alternating: one iteration of
\* `for check_row in range(row - 1, 0, -1)`.
HWalkStep ==
    /\ pc = "walk_h"
    /\ InRange(check) /\ ~wbroke
    /\ WalkBody(<<check, wcol>>, "horizontal", "vertical", Distance(wrow, check))
    /\ UNCHANGED <<exportVars, sessionVars, entry, pc, inputVars, groupVars, labelVars, sighted>>
    /\ UNCHANGED mergeVars

\* find_horizontal_labels_alternating returns; the caller goes on with
\* find_vertical_labels_alternating on the same cell (lines 118-125).
HWalkReturn ==
    /\ pc = "walk_h"
    /\ ~InRange(check) \/ wbroke
    /\ horizontal_labels' = wlabels
    /\ StartWalk(wrow, wcol, FirstCheck(wcol))
    /\ pc' = "walk_v"
    /\ UNCHANGED <<exportVars, sessionVars, entry, inputVars, groupVars, label_cells_by_pair, zi, ci,
                   label_map, processed, labels, vertical_labels, sighted>>
    /\ UNCHANGED mergeVars

\* find_vertical_labels_alternating: one iteration of
\* `for check_col in range(col - 1, 0, -1)`.
VWalkStep ==
    /\ pc = "walk_v"
    /\ InRange(check) /\ ~wbroke
    /\ WalkBody(<<wrow, check>>, "vertical", "horizontal", Distance(wcol, check))
    /\ UNCHANGED <<exportVars, sessionVars, entry, pc, inputVars, groupVars, labelVars, sighted>>
    /\ UNCHANGED mergeVars

\* Where the run goes when the two walks of a cell have returned.
AfterWalks == IF entry = "detect" THEN "add" ELSE "done"

\* find_vertical_labels_alternating returns.
VWalkReturn ==
    /\ pc = "walk_v"
    /\ ~InRange(check) \/ wbroke
    /\ vertical_labels' = wlabels
    /\ pc' = AfterWalks
    /\ UNCHANGED <<exportVars, sessionVars, entry, inputVars, groupVars, label_cells_by_pair, zi, ci,
                   label_map, processed, labels, horizontal_labels, walkVars,
                   sighted>>
    /\ UNCHANGED mergeVars

\* The positions the two walks of the cell (r, c) can look at.
ScanAxes(r, c) == {<<k, c>> : k \in 1..(r - 1)} \cup {<<r, k>> : k \in 1..(c - 1)}

\* The label maps over the positions D.
LabelMapsOn(D) ==
    LET kinds == [D -> PairIds \X {"horizontal", "vertical"}]
    IN {[pos \in D |-> MapEntry(pos, k[pos][1], k[pos][2])] : k \in kinds}

\* The two walks of one zone cell, over every label map on the two scan
\* axes of the cell.
InitWalk ==
    /\ entry = "walk"
    /\ pc = "walk_h"
    /\ \E r \in 1..(MaxDist + 1), c \in 1..(MaxDist + 1) :
        /\ (r - 1) + (c - 1) <= MaxDist
        /\ wrow = r
        /\ wcol = c
        /\ check = FirstCheck(r)
        /\ \E D \in SUBSET ScanAxes(r, c) : label_map \in LabelMapsOn(D)
    /\ current_pair_id = NoPair
    /\ wlabels = <<>>
    /\ wbroke = FALSE
    /\ inspected = {}
    /\ wsteps = 0
    /\ label_cells_by_pair = <<>>
    /\ zi = 1
    /\ ci = 1
    /\ processed = {}
    /\ labels = <<>>
    /\ horizontal_labels = <<>>
    /\ vertical_labels = <<>>
    /\ sighted = <<>>
    /\ GroupStart(<<>>)
    /\ IdleInputs
    /\ IdleMerge
    /\ IdleSession
    /\ IdleExport

NextWalk ==
    \/ HWalkStep
    \/ HWalkReturn
    \/ VWalkStep
    \/ VWalkReturn

SpecWalk == InitWalk /\ [][NextWalk]_vars

\* ================================ detect_zones_with_alternating_pairs
\* dict.get(key, []) on color_cells.
CellsOfColor(cc, color) == IF color \in DOMAIN cc THEN cc[color] ELSE <<>>

\* A loop that reads the colors of the first pair for every pair.
LabelCellsOfFirstPair(palette, cc) ==
    [k \in DOMAIN palette.label_pairs |->
        [pair_id    |-> k - 1,
         horizontal |-> CellsOfColor(cc, palette.label_pairs[1].horizontal.color),
         vertical   |-> CellsOfColor(cc, palette.label_pairs[1].vertical.color),
         h_color    |-> palette.label_pairs[1].horizontal.color,
         v_color    |-> palette.label_pairs[1].vertical.color]]

\* The loop building label_cells_by_pair (lines 33-46).
LabelCellsByPair(palette, cc) ==
    [k \in DOMAIN palette.label_pairs |->
        [pair_id    |-> k - 1,
         horizontal |-> CellsOfColor(cc, palette.label_pairs[k].horizontal.color),
         vertical   |-> CellsOfColor(cc, palette.label_pairs[k].vertical.color),
         h_color    |-> palette.label_pairs[k].horizontal.color,
         v_color    |-> palette.label_pairs[k].vertical.color]]

\* An assignment that files the entry under (col, row).
PutTransposed(m, pos, e) ==
    [x \in DOMAIN m \cup {<<pos[2], pos[1]>>} |->
        IF x = <<pos[2], pos[1]>> THEN e ELSE m[x]]

\* label_map[(row, col)] = entry
Put(m, pos, e) ==
    [x \in DOMAIN m \cup {pos} |-> IF x = pos THEN e ELSE m[x]]

\* One of the two inner loops of the label_map construction.
RECURSIVE PutCells(_, _, _, _, _)
PutCells(m, cs, p, dir, color) ==
    IF cs = <<>> THEN m
    ELSE PutCells(Put(m, cs[1],
                      [row |-> cs[1][1], col |-> cs[1][2], pair_id |-> p,
                       direction |-> dir, color |-> color]),
                  Tail(cs), p, dir, color)

\* The construction of label_map (lines 78-101): pair after pair, the
\* horizontal cells and then the vertical ones, a later entry replacing an
\* earlier one at the same position.
RECURSIVE BuildLabelMap(_, _)
BuildLabelMap(m, pairs) ==
    IF pairs = <<>> THEN m
    ELSE LET pd == pairs[1]
             mh == PutCells(m, pd.horizontal, pd.pair_id, "horizontal", pd.h_color)
             mv == PutCells(mh, pd.vertical, pd.pair_id, "vertical", pd.v_color)
         IN BuildLabelMap(mv, Tail(pairs))

\* The key under which a label is remembered in processed.
LabelKey(label) == <<label.row, label.col, label.direction, label.pair_id>>

\* A resolver that records every sighting.
KeyNeverProcessed(key, done) == FALSE

\* `if key not in processed` (negated)
KeyProcessed(key, done) == key \in done

\* The name added to a label before it is appended (lines 135-140).
PairName(palette, label) ==
    IF label.direction = "horizontal"
    THEN palette.label_pairs[label.pair_id + 1].horizontal.name
    ELSE palette.label_pairs[label.pair_id + 1].vertical.name

WithPairName(palette, label) ==
    IF label.pair_id # NoPair /\ label.pair_id < Len(palette.label_pairs)
    THEN [f \in DOMAIN label \cup {"pair_name"} |->
             IF f = "pair_name" THEN PairName(palette, label) ELSE label[f]]
    ELSE label

\* The loop `for label in horizontal_labels + vertical_labels` (131-142).
RECURSIVE AddFound(_, _, _, _)
AddFound(found, ls, done, palette) ==
    IF found = <<>> THEN [labels |-> ls, processed |-> done]
    ELSE LET label == found[1]
             key   == LabelKey(label)
         IN IF ~KeyProcessed(key, done)
            THEN AddFound(Tail(found), Append(ls, WithPairName(palette, label)),
                          done \cup {key}, palette)
            ELSE AddFound(Tail(found), ls, done, palette)

\* Lines 30-52: the zone cells, label_cells_by_pair, and the call of
\* group_contiguous_cells.
DetectPrepare ==
    /\ pc = "detect"
    /\ cells' = CellsOfColor(color_cells, color_palette.zone_color)
    /\ label_cells_by_pair' = LabelCellsByPair(color_palette, color_cells)
    /\ i' = 1
    /\ visited' = {}
    /\ stack' = <<>>
    /\ zone_cells' = <<>>
    /\ zones' = <<>>
    /\ pc' = "group"
    /\ UNCHANGED <<exportVars, sessionVars, entry, inputVars, zi, ci, label_map, processed, labels,
                   horizontal_labels, vertical_labels, walkVars, sighted>>
    /\ UNCHANGED mergeVars

\* `for zone in zones`: find_labels_with_alternating_pairs is entered and
\* builds label_map (lines 69-107).
ResolveZone ==
    /\ pc = "resolve"
    /\ zi <= Len(zones)
    /\ labels' = <<>>
    /\ label_map' = BuildLabelMap(<<>>, label_cells_by_pair)
    /\ processed' = {}
    /\ ci' = 1
    /\ sighted' = <<>>
    /\ pc' = "cell"
    /\ UNCHANGED <<exportVars, sessionVars, entry, inputVars, groupVars, label_cells_by_pair, zi,
                   horizontal_labels, vertical_labels, walkVars>>
    /\ UNCHANGED mergeVars

\* `for zone_cell in zone['cells']`: the upward walk of the cell is called.
ResolveCell ==
    /\ pc = "cell"
    /\ ci <= Len(zones[zi].cells)
    /\ LET zone_cell == zones[zi].cells[ci]
       IN StartWalk(Row(zone_cell), Col(zone_cell), FirstCheck(Row(zone_cell)))
    /\ pc' = "walk_h"
    /\ UNCHANGED <<exportVars, sessionVars, entry, inputVars, groupVars, labelVars, sighted>>
    /\ UNCHANGED mergeVars

\* The labels of the two walks are added, the duplicates left out.
AddLabels ==
    /\ pc = "add"
    /\ LET got == AddFound(horizontal_labels \o vertical_labels, labels,
                           processed, color_palette)
       IN /\ labels' = got.labels
          /\ processed' = got.processed
    /\ sighted' = sighted \o horizontal_labels \o vertical_labels
    /\ ci' = ci + 1
    /\ pc' = "cell"
    /\ UNCHANGED <<exportVars, sessionVars, entry, inputVars, groupVars, label_cells_by_pair, zi,
                   label_map, horizontal_labels, vertical_labels, walkVars>>
    /\ UNCHANGED mergeVars

\* find_labels_with_alternating_pairs returns: zone['labels'] = labels.
ResolveReturn ==
    /\ pc = "cell"
    /\ ci > Len(zones[zi].cells)
    /\ zones' = [zones EXCEPT ![zi].labels = labels]
    /\ zi' = zi + 1
    /\ pc' = "resolve"
    /\ UNCHANGED <<exportVars, sessionVars, entry, inputVars, cells, i, visited, stack, zone_cells,
                   label_cells_by_pair, ci, label_map, processed, labels,
                   horizontal_labels, vertical_labels, walkVars, sighted>>
    /\ UNCHANGED mergeVars

\* `return zones, label_cells_by_pair`
DetectReturn ==
    /\ pc = "resolve"
    /\ zi > Len(zones)
    /\ pc' = "done"
    /\ UNCHANGED <<exportVars, sessionVars, entry, inputVars, groupVars, labelVars, walkVars, sighted>>
    /\ UNCHANGED mergeVars

\* ------------------------------------------------------------ the sheets
\* The cells of S in the order of the scan of detect_all_colors: row after
\* row, and column after column inside a row.
RECURSIVE ScanOrder(_)
ScanOrder(S) ==
    IF S = {} THEN <<>>
    ELSE LET first == CHOOSE c \in S :
                 \A d \in S : \/ Row(c) < Row(d)
                              \/ (Row(c) = Row(d) /\ Col(c) <= Col(d))
         IN <<first>> \o ScanOrder(S \ {first})

\* detect_all_colors: the cells of each color present, in scan order.
\* sheet maps the colored cells to their color key.
ColorIndex(sheet) ==
    [color \in {sheet[c] : c \in DOMAIN sheet} |->
        ScanOrder({c \in DOMAIN sheet : sheet[c] = color})]

\* A validated palette of n pairs.
Palette(n) ==
    [zone_color  |-> zone_color,
     zone_name   |-> "zone",
     label_pairs |-> [k \in 1..n |->
        [horizontal |-> [color |-> h_color(k - 1), name |-> <<"H", k>>],
         vertical   |-> [color |-> v_color(k - 1), name |-> <<"V", k>>]]]]

HeaderColors(n) == {h_color(p) : p \in 0..(n - 1)} \cup {v_color(p) : p \in 0..(n - 1)}

\* The layout of the sheets: a block of data cells with the cells above it
\* in the first row and the cells left of it in the first column.
BlockCells  == {<<2, 2>>, <<2, 3>>, <<3, 2>>, <<3, 3>>}
HeaderCells == {<<1, 2>>, <<1, 3>>, <<2, 1>>, <<3, 1>>}

\* Every sheet of that layout: any cells of the block have the zone color,
\* any of the cells around it have any header color of the palette.
Sheets(n) ==
    UNION {UNION {
        {[c \in Z \cup D |-> IF c \in Z THEN zone_color ELSE hc[c]] :
            hc \in [D -> HeaderColors(n)]} :
        D \in SUBSET HeaderCells} :
        Z \in SUBSET BlockCells}

\* detect_zones_with_alternating_pairs on the Color Index of a sheet, for
\* a palette of up to MaxPairs pairs.
Init ==
    /\ entry = "detect"
    /\ pc = "detect"
    /\ \E n \in 0..MaxPairs :
        /\ color_palette = Palette(n)
        /\ \E sheet \in Sheets(n) : color_cells = ColorIndex(sheet)
    /\ GroupStart(<<>>)
    /\ IdleLabels
    /\ IdleWalk
    /\ IdleMerge
    /\ IdleSession
    /\ IdleExport

Next ==
    \/ DetectPrepare
    \/ GroupEmpty
    \/ GroupNextCell
    \/ GroupPop
    \/ GroupAppendZone
    \/ GroupReturn
    \/ ResolveZone
    \/ ResolveCell
    \/ HWalkStep
    \/ HWalkReturn
    \/ VWalkStep
    \/ VWalkReturn
    \/ AddLabels
    \/ ResolveReturn
    \/ DetectReturn

Spec == Init /\ [][Next]_vars

\* ------------------------------------------ a header row over a zone row
\* A second layout: a row of header cells directly above a row of data
\* cells.
HeaderRowCells == {<<1, 1>>, <<1, 2>>, <<1, 3>>, <<1, 4>>}
ZoneRowCells   == {<<2, 1>>, <<2, 2>>, <<2, 3>>, <<2, 4>>}

\* Every sheet of that layout: the zone row is there or not, any cells of
\* the header row have any header color of the palette.
HeaderRowSheets(n) ==
    UNION {UNION {
        {[c \in Z \cup D |-> IF c \in Z THEN zone_color ELSE hc[c]] :
            hc \in [D -> HeaderColors(n)]} :
        D \in SUBSET HeaderRowCells} :
        Z \in {ZoneRowCells, {}}}

\* detect_zones_with_alternating_pairs on the Color Index of such a sheet.
InitHeaderRow ==
    /\ entry = "detect"
    /\ pc = "detect"
    /\ \E n \in 0..MaxPairs :
        /\ color_palette = Palette(n)
        /\ \E sheet \in HeaderRowSheets(n) : color_cells = ColorIndex(sheet)
    /\ GroupStart(<<>>)
    /\ IdleLabels
    /\ IdleWalk
    /\ IdleMerge
    /\ IdleSession
    /\ IdleExport

SpecHeaderRow == InitHeaderRow /\ [][Next]_vars

\* ============================================================ merge_zones
\* An adjacency test whose edge comparisons are strict.
are_zones_adjacent_strict(bounds1, bounds2, gap) ==
    IF /\ bounds1.min_row <= bounds2.max_row + gap
       /\ bounds1.max_row >= bounds2.min_row - gap
       /\ \/ Abs(bounds1.max_col - bounds2.min_col) < gap
          \/ Abs(bounds2.max_col - bounds1.min_col) < gap
    THEN TRUE
    ELSE /\ bounds1.min_col <= bounds2.max_col + gap
         /\ bounds1.max_col >= bounds2.min_col - gap
         /\ \/ Abs(bounds1.max_row - bounds2.min_row) < gap
            \/ Abs(bounds2.max_row - bounds1.min_row) < gap

\* are_zones_adjacent (lines 376-396): the horizontal test, and when it
\* fails the vertical one.
are_zones_adjacent(bounds1, bounds2, gap) ==
    IF /\ bounds1.min_row <= bounds2.max_row + gap
       /\ bounds1.max_row >= bounds2.min_row - gap
       /\ \/ Abs(bounds1.max_col - bounds2.min_col) <= gap
          \/ Abs(bounds2.max_col - bounds1.min_col) <= gap
    THEN TRUE
    ELSE /\ bounds1.min_col <= bounds2.max_col + gap
         /\ bounds1.max_col >= bounds2.min_col - gap
         /\ \/ Abs(bounds1.max_row - bounds2.min_row) <= gap
            \/ Abs(bounds2.max_row - bounds1.min_row) <= gap

\* The dict merged_zone when it is created from zone1 (lines 333-338).
\* cells and bounds are copies; labels is zone1's own list.
NewMergedZone(zone1, n) ==
    [id     |-> n + 1,
     cells  |-> zone1.cells,
     bounds |-> zone1.bounds,
     labels |-> zone1.labels]

\* A bounds update that keeps the box of the first zone.
KeepBounds(b, b2) == b

\* The four min/max updates of the bounds (lines 352-367).
MergedBounds(b, b2) ==
    [min_row |-> IF b2.min_row < b.min_row THEN b2.min_row ELSE b.min_row,
     max_row |-> IF b2.max_row > b.max_row THEN b2.max_row ELSE b.max_row,
     min_col |-> IF b2.min_col < b.min_col THEN b2.min_col ELSE b.min_col,
     max_col |-> IF b2.max_col > b.max_col THEN b2.max_col ELSE b.max_col]

\* zone2 is merged into merged_zone (lines 348-367).
Absorb(mz, zone2) ==
    [mz EXCEPT !.cells  = @ \o zone2.cells,
               !.labels = @ \o zone2.labels,
               !.bounds = MergedBounds(@, zone2.bounds)]

\* A scan that tests zone2 against the box merged so far.
ScanGrownBounds(zone1, mz) == mz.bounds

\* The first argument of are_zones_adjacent in the inner loop (line 346):
\* the bounds of zone1 itself.
ScanBounds(zone1, mz) == zone1.bounds

\* A merge that forgets which zones it absorbed.
MarkUsedNever(u, j) == u

\* used.add(j)
MarkUsed(u, j) == u \cup {j}

\* merged_zone['cell_count'] = len(merged_zone['cells'])
WithCellCount(mz) ==
    [f \in DOMAIN mz \cup {"cell_count"} |->
        IF f = "cell_count" THEN Len(mz.cells) ELSE mz[f]]

\* The label list of zone k, whatever the resolver put in it.
ZoneLabel(k) == <<"label", k>>

\* `zone['labels'] = find_labels_with_alternating_pairs(...)` for every
\* zone: each zone gets a label list, empty or not.
AttachLabels ==
    /\ pc = "labels"
    /\ \E L \in SUBSET (DOMAIN zones) :
        zones' = [k \in DOMAIN zones |->
                     [zones[k] EXCEPT !.labels =
                         IF k \in L THEN <<ZoneLabel(k)>> ELSE <<>>]]
    /\ pc' = "merge"
    /\ UNCHANGED <<exportVars, sessionVars, entry, inputVars, cells, i, visited, stack, zone_cells,
                   labelVars, walkVars, sighted, mergeVars>>

\* merge_zones(zones, max_gap) is called.
MergeCall ==
    /\ pc = "merge"
    /\ \E g \in 0..MaxGap : max_gap' = g
    /\ zones0' = zones
    /\ merged' = <<>>
    /\ used' = {}
    /\ mi' = 1
    /\ absorbed' = <<>>
    /\ counts' = <<Len(zones)>>
    /\ pc' = "merge_i"
    /\ UNCHANGED <<exportVars, sessionVars, entry, inputVars, groupVars, labelVars, walkVars, sighted,
                   mj, merged_zone, merge_result, adjacent>>

\* `if len(zones) <= 1: return zones`
MergeShort ==
    /\ pc = "merge_i"
    /\ Len(zones) <= 1
    /\ merge_result' = zones
    /\ absorbed' = [k \in DOMAIN zones |-> <<k>>]
    /\ counts' = Append(counts, Len(zones))
    /\ pc' = "done"
    /\ UNCHANGED <<exportVars, sessionVars, entry, inputVars, groupVars, labelVars, walkVars, sighted,
                   max_gap, merged, used, mi, mj, merged_zone, adjacent, zones0>>

\* One iteration of `for i, zone1 in enumerate(zones)` up to the inner loop.
MergeNextZone ==
    /\ pc = "merge_i"
    /\ Len(zones) > 1
    /\ mi <= Len(zones)
    /\ IF mi \in used
       THEN /\ mi' = mi + 1
            /\ UNCHANGED <<merged_zone, mj, absorbed, pc>>
       ELSE /\ merged_zone' = NewMergedZone(zones[mi], Len(merged))
            /\ mj' = mi + 1
            /\ absorbed' = Append(absorbed, <<mi>>)
            /\ pc' = "merge_j"
            /\ mi' = mi
    /\ UNCHANGED <<exportVars, sessionVars, entry, inputVars, groupVars, labelVars, walkVars, sighted,
                   max_gap, merged, used, merge_result, adjacent, zones0,
                   counts>>

\* One iteration of `for j, zone2 in enumerate(zones[i+1:], i+1)`.
\* Extending merged_zone['labels'] extends zone1's list, which it is.
MergeScan ==
    /\ pc = "merge_j"
    /\ mj <= Len(zones)
    /\ IF mj \in used
       THEN UNCHANGED <<adjacent, merged_zone, zones, used, absorbed>>
       ELSE LET bounds1 == ScanBounds(zones[mi], merged_zone)
                found == are_zones_adjacent(bounds1, zones[mj].bounds, max_gap)
            IN /\ adjacent' = [bounds1 |-> bounds1,
                               bounds2 |-> zones[mj].bounds,
                               max_gap |-> max_gap,
                               result  |-> found]
               /\ IF found
                  THEN /\ merged_zone' = Absorb(merged_zone, zones[mj])
                       /\ zones' = [zones EXCEPT ![mi].labels = @ \o zones[mj].labels]
                       /\ used' = MarkUsed(used, mj)
                       /\ absorbed' = [absorbed EXCEPT ![Len(absorbed)] = Append(@, mj)]
                  ELSE UNCHANGED <<merged_zone, zones, used, absorbed>>
    /\ mj' = mj + 1
    /\ UNCHANGED <<exportVars, sessionVars, entry, pc, inputVars, cells, i, visited, stack, zone_cells,
                   labelVars, walkVars, sighted, max_gap, merged, mi,
                   merge_result, zones0, counts>>

\* The inner loop is over: cell_count, merged.append, next zone1.
MergeAppend ==
    /\ pc = "merge_j"
    /\ mj > Len(zones)
    /\ merged' = Append(merged, WithCellCount(merged_zone))
    /\ mi' = mi + 1
    /\ pc' = "merge_i"
    /\ UNCHANGED <<exportVars, sessionVars, entry, inputVars, groupVars, labelVars, walkVars, sighted,
                   max_gap, used, mj, merged_zone, merge_result, adjacent,
                   zones0, absorbed, counts>>

\* `return merged`
MergeReturn ==
    /\ pc = "merge_i"
    /\ Len(zones) > 1
    /\ mi > Len(zones)
    /\ merge_result' = merged
    /\ counts' = Append(counts, Len(merged))
    /\ pc' = "done"
    /\ UNCHANGED <<exportVars, sessionVars, entry, inputVars, groupVars, labelVars, walkVars, sighted,
                   max_gap, merged, used, mi, mj, merged_zone, adjacent,
                   zones0, absorbed>>

\* The button is pressed again: merge_zones is called on the list it
\* returned, with the same max_gap.
MergeAgain ==
    /\ pc = "done"
    /\ entry = "merge"
    /\ Len(counts) <= MaxPasses
    /\ zones' = merge_result
    /\ zones0' = merge_result
    /\ merged' = <<>>
    /\ used' = {}
    /\ mi' = 1
    /\ absorbed' = <<>>
    /\ pc' = "merge_i"
    /\ UNCHANGED <<exportVars, sessionVars, entry, inputVars, cells, i, visited, stack, zone_cells,
                   labelVars, walkVars, sighted, max_gap, mj, merged_zone,
                   merge_result, adjacent, counts>>

\* The button `Fusionner zones proches` on the zones of a detection: the
\* zone-colored cells of a sheet in scan order are grouped, the zones get
\* their labels, and merge_zones is called on them.
InitMerge ==
    /\ entry = "merge"
    /\ pc = "group"
    /\ \E S \in SUBSET Grid :
        /\ Cardinality(S) <= MaxCells
        /\ GroupStart(ScanOrder(S))
    /\ IdleInputs /\ IdleLabels /\ IdleWalk
    /\ IdleMerge
    /\ IdleSession
    /\ IdleExport

NextMerge ==
    \/ GroupEmpty
    \/ GroupNextCell
    \/ GroupPop
    \/ GroupAppendZone
    \/ GroupReturn
    \/ AttachLabels
    \/ MergeCall
    \/ MergeShort
    \/ MergeNextZone
    \/ MergeScan
    \/ MergeAppend
    \/ MergeReturn
    \/ MergeAgain

SpecMerge == InitMerge /\ [][NextMerge]_vars

\* ------------------------------------------------- hand-made zone lists
\* Every bounding box inside the grid of side MaxBox.
Boxes ==
    {[min_row |-> r[1], max_row |-> r[2], min_col |-> c[1], max_col |-> c[2]] :
        r \in {x \in (1..MaxBox) \X (1..MaxBox) : x[1] <= x[2]},
        c \in {x \in (1..MaxBox) \X (1..MaxBox) : x[1] <= x[2]}}

\* A zone with the box b: its cells are the two corners of the box.
BoxZone(k, b) ==
    LET corners == IF b.min_row = b.max_row /\ b.min_col = b.max_col
                   THEN <<<<b.min_row, b.min_col>>>>
                   ELSE <<<<b.min_row, b.min_col>>, <<b.max_row, b.max_col>>>>
    IN [id         |-> k,
        cells      |-> corners,
        bounds     |-> b,
        cell_count |-> Len(corners),
        labels     |-> <<ZoneLabel(k)>>]

\* The boxes of one cell.
CellBoxes == {b \in Boxes : b.min_row = b.max_row /\ b.min_col = b.max_col}

\* The zone lists of at most two zones with boxes of Boxes, and those of
\* three zones of one cell each.
BoxLists ==
    {<<>>} \cup {<<BoxZone(1, b)>> : b \in Boxes}
           \cup {<<BoxZone(1, b[1]), BoxZone(2, b[2])>> : b \in Boxes \X Boxes}
           \cup {<<BoxZone(1, b[1]), BoxZone(2, b[2]), BoxZone(3, b[3])>> :
                     b \in CellBoxes \X CellBoxes \X CellBoxes}

\* The list zs with every id raised by d.
WithIds(zs, d) == [k \in DOMAIN zs |-> [zs[k] EXCEPT !.id = @ + d]]

\* merge_zones on a hand-made zone list, whatever its boxes, numbered from
\* 1 or from a later id.
InitBoxes ==
    /\ entry = "boxes"
    /\ pc = "merge"
    /\ cells = <<>>
    /\ i = 1
    /\ visited = {}
    /\ stack = <<>>
    /\ zone_cells = <<>>
    /\ \E zs \in BoxLists, d \in 0..MaxIdShift : zones = WithIds(zs, d)
    /\ IdleInputs /\ IdleLabels /\ IdleWalk
    /\ IdleMerge
    /\ IdleSession
    /\ IdleExport

NextBoxes ==
    \/ MergeCall
    \/ MergeShort
    \/ MergeNextZone
    \/ MergeScan
    \/ MergeAppend
    \/ MergeReturn

SpecBoxes == InitBoxes /\ [][NextBoxes]_vars

\* ============================================== the session (main.py)
\* The workbooks the user may load, their sheet names and their fill colors.
Books == DOMAIN files
SheetsOf(w) == files[w].sheets
ColorsOf(w) == files[w].colors

\* Workbooks that share sheet names: the odd ones have the sheets 1 and 2,
\* the even ones the sheet 1, all of them the colors of one pair and a zone.
SharedSheets ==
    [w \in 1..MaxBooks |-> [sheets |-> 1..(1 + (w % 2)), colors |-> 1..3]]

\* One workbook of one sheet, with the colors of two pairs and a zone.
ManyColors == [w \in {1} |-> [sheets |-> {1}, colors |-> 1..5]]

\* What detect_all_colors returns for a sheet of a workbook: the Color Index
\* of that sheet of that workbook.
IndexOf(w, sheet) == [book |-> w, sheet |-> sheet]

\* st.session_state.color_palette is None.
NoPalette == <<>>
HasPalette == DOMAIN color_palette # {}

\* get_color_name(hex) and the two header names of pair k.
ColorName(c) == <<"name", c>>
HName(k, c) == <<"Headers H", k, ColorName(c)>>
VName(k, c) == <<"Headers V", k, ColorName(c)>>

\* A selectbox: any of its options, None (0) when it has none.
NoColor == 0
Selectbox(options) == IF options = {} THEN {NoColor} ELSE options

\* The pairs the form can hold when the validation button is pressed (lines
\* 325-370): for each of the n pairs left, a horizontal and a vertical
\* color are chosen among the colors not used so far, and the pair is
\* appended when both are chosen.
RECURSIVE FormPairs(_, _, _, _)
FormPairs(k, n, used_colors, pairs) ==
    IF k > n THEN {pairs}
    ELSE UNION {
        LET used_h == IF h = NoColor THEN used_colors ELSE used_colors \cup {h}
        IN UNION {
            LET used_v == IF v = NoColor THEN used_h ELSE used_h \cup {v}
            IN FormPairs(k + 1, n, used_v,
                   IF h # NoColor /\ v # NoColor
                   THEN Append(pairs,
                            [horizontal |-> [color |-> h, name |-> HName(k, h)],
                             vertical   |-> [color |-> v, name |-> VName(k, v)]])
                   ELSE pairs)
            : v \in Selectbox(detected_colors \ used_h)}
        : h \in Selectbox(detected_colors \ used_colors)}

\* all_colors of lines 376-378.
AllColors(zone, pairs) ==
    <<zone>> \o [k \in 1..(2 * Len(pairs)) |->
                    IF k % 2 = 1 THEN pairs[(k + 1) \div 2].horizontal.color
                    ELSE pairs[k \div 2].vertical.color]

\* A validation that accepts whatever the form holds.
AcceptsAnyForm(zone, n, pairs) == TRUE

\* The two conditions of the validation button (lines 375 and 380).
Accepts(zone, n, pairs) ==
    /\ Len(pairs) = n
    /\ \A k \in DOMAIN pairs : pairs[k].horizontal.color # pairs[k].vertical.color
    /\ Len(AllColors(zone, pairs)) = Cardinality(Range(AllColors(zone, pairs)))

\* Every handler below runs inside a run of main with a file in the
\* uploader, which loads it again first (line 98).
FileLoaded == uploaded_file # 0 /\ workbook' = uploaded_file

\* The run is not one in which the validation button is pressed.
NoValidation == num_pairs' = 0 /\ validation' = "none" /\ UNCHANGED files

\* The user puts a file in the uploader (lines 90-99).
Upload ==
    /\ entry = "session"
    /\ \E w \in Books :
        /\ w # uploaded_file
        /\ uploaded_file' = w
        /\ workbook' = w
    /\ NoValidation
    /\ UNCHANGED <<detected_colors, all_sheets_color_cells, all_sheets_zones,
                   label_pairs>>
    /\ UNCHANGED <<exportVars, entry, pc, inputVars, groupVars, labelVars, walkVars,
                   sighted, mergeVars>>

\* The user takes the file out of the uploader: main does nothing (line 95).
RemoveFile ==
    /\ entry = "session"
    /\ uploaded_file # 0
    /\ uploaded_file' = 0
    /\ NoValidation
    /\ UNCHANGED <<workbook, detected_colors, all_sheets_color_cells,
                   all_sheets_zones, label_pairs>>
    /\ UNCHANGED <<exportVars, entry, pc, inputVars, groupVars, labelVars, walkVars,
                   sighted, mergeVars>>

\* The button that analyses the colors of the whole file (lines 105-140).
AnalyseColors ==
    /\ entry = "session"
    /\ FileLoaded
    /\ all_sheets_color_cells' =
          [sheet \in SheetsOf(uploaded_file) |-> IndexOf(uploaded_file, sheet)]
    /\ detected_colors' = ColorsOf(uploaded_file)
    /\ NoValidation
    /\ UNCHANGED <<uploaded_file, all_sheets_zones, label_pairs>>
    /\ UNCHANGED <<exportVars, entry, pc, inputVars, groupVars, labelVars, walkVars,
                   sighted, mergeVars>>

\* The validation button of configure_color_palette_pairs_global (lines
\* 169-171 and 374-391).
ValidatePalette ==
    /\ entry = "session"
    /\ FileLoaded
    /\ detected_colors # {}
    /\ ~HasPalette
    /\ \E zone \in detected_colors, n \in 1..MaxNumPairs :
        \E pairs \in FormPairs(1, n, {zone}, <<>>) :
            /\ num_pairs' = n
            /\ UNCHANGED files
            /\ IF Accepts(zone, n, pairs)
               THEN /\ color_palette' = [zone_color  |-> zone,
                                         zone_name   |-> ColorName(zone),
                                         label_pairs |-> pairs]
                    /\ label_pairs' = pairs
                    /\ validation' = "accepted"
               ELSE /\ UNCHANGED <<color_palette, label_pairs>>
                    /\ validation' = "rejected"
    /\ UNCHANGED <<uploaded_file, detected_colors, all_sheets_color_cells,
                   all_sheets_zones, color_cells>>
    /\ UNCHANGED <<exportVars, entry, pc, groupVars, labelVars, walkVars, sighted,
                   mergeVars>>

\* The button that reconfigures the palette (lines 172-178).
Reconfigure ==
    /\ entry = "session"
    /\ FileLoaded
    /\ detected_colors # {}
    /\ HasPalette
    /\ color_palette' = NoPalette
    /\ NoValidation
    /\ UNCHANGED <<uploaded_file, detected_colors, all_sheets_color_cells,
                   all_sheets_zones, label_pairs, color_cells>>
    /\ UNCHANGED <<exportVars, entry, pc, groupVars, labelVars, walkVars, sighted,
                   mergeVars>>

\* The Color Index process_single_sheet works with (lines 397-407).
SheetIndex(index, sheet_name) ==
    IF sheet_name \in DOMAIN index
    THEN index[sheet_name]
    ELSE IndexOf(uploaded_file, sheet_name)

\* What process_single_sheet stores for the sheet (lines 427-432 and 471):
\* the zones of a detection on the workbook with the Color Index it was
\* given.
Detection(index, sheet_name) ==
    [workbook |-> uploaded_file, color_cells |-> SheetIndex(index, sheet_name)]

\* process_single_sheet on each sheet of the list in turn.
ProcessSheets(names) ==
    /\ all_sheets_color_cells' =
          [sheet \in DOMAIN all_sheets_color_cells \cup names |->
              SheetIndex(all_sheets_color_cells, sheet)]
    /\ all_sheets_zones' =
          [sheet \in DOMAIN all_sheets_zones \cup names |->
              IF sheet \in names
              THEN Detection(all_sheets_color_cells, sheet)
              ELSE all_sheets_zones[sheet]]

\* The button that detects the zones of the selected sheet (lines 190-194).
ProcessSingleSheet ==
    /\ entry = "session"
    /\ FileLoaded
    /\ HasPalette
    /\ \E selected_sheet \in SheetsOf(uploaded_file) :
          ProcessSheets({selected_sheet})
    /\ NoValidation
    /\ UNCHANGED <<uploaded_file, detected_colors, label_pairs>>
    /\ UNCHANGED <<exportVars, entry, pc, inputVars, groupVars, labelVars, walkVars,
                   sighted, mergeVars>>

\* The button that processes all the sheets (lines 214-215 and 477-485).
ProcessAllSheets ==
    /\ entry = "session"
    /\ FileLoaded
    /\ HasPalette
    /\ ProcessSheets(SheetsOf(uploaded_file))
    /\ NoValidation
    /\ UNCHANGED <<uploaded_file, detected_colors, label_pairs>>
    /\ UNCHANGED <<exportVars, entry, pc, inputVars, groupVars, labelVars, walkVars,
                   sighted, mergeVars>>

\* The session as init_session_state leaves it (lines 59-80), the user
\* having either set of workbooks.
InitSession ==
    /\ entry = "session"
    /\ pc = "main"
    /\ GroupStart(<<>>)
    /\ IdleInputs /\ IdleLabels /\ IdleWalk
    /\ IdleMerge
    /\ uploaded_file = 0
    /\ workbook = 0
    /\ detected_colors = {}
    /\ all_sheets_color_cells = <<>>
    /\ all_sheets_zones = <<>>
    /\ label_pairs = <<>>
    /\ files \in {SharedSheets, ManyColors}
    /\ num_pairs = 0
    /\ validation = "none"
    /\ IdleExport

NextSession ==
    \/ Upload
    \/ RemoveFile
    \/ AnalyseColors
    \/ ValidatePalette
    \/ Reconfigure
    \/ ProcessSingleSheet
    \/ ProcessAllSheets

SpecSession == InitSession /\ [][NextSession]_vars

\* ==================================== the export (export.py and main.py)
\* A text is a sequence of characters; a run of characters none of which
\* is a quote or a backslash may stand as one element.
Text(s) == <<s>>

Digits  == <<"0", "1", "2", "3", "4", "5", "6", "7", "8", "9">>
Alphabet == <<"A", "B", "C", "D", "E", "F", "G", "H", "I", "J", "K", "L", "M",
              "N", "O", "P", "Q", "R", "S", "T", "U", "V", "W", "X", "Y", "Z">>

\* The decimal numeral of an integer, as str and json.dumps write it.
RECURSIVE NatToText(_)
NatToText(n) ==
    IF n < 10 THEN <<Digits[n + 1]>>
    ELSE NatToText(n \div 10) \o <<Digits[(n % 10) + 1]>>

IntToText(n) == IF n < 0 THEN <<"-">> \o NatToText(0 - n) ELSE NatToText(n)

\* The integer a decimal numeral stands for, as json.loads reads it.
DigitValue(c) == CHOOSE d \in 0..9 : Digits[d + 1] = c

RECURSIVE TextToNat(_)
TextToNat(t) ==
    IF Len(t) = 1 THEN DigitValue(t[1])
    ELSE 10 * TextToNat(SubSeq(t, 1, Len(t) - 1)) + DigitValue(t[Len(t)])

TextToInt(t) == IF t[1] = "-" THEN 0 - TextToNat(Tail(t)) ELSE TextToNat(t)

\* num_to_excel_col (excel_utils.py, lines 12-21).
RECURSIVE ColumnLetters(_, _)
ColumnLetters(n, col) ==
    IF n > 0
    THEN ColumnLetters((n - 1) \div 26, <<Alphabet[((n - 1) % 26) + 1]>> \o col)
    ELSE col

num_to_excel_col(n) == IF n <= 0 THEN <<"?">> ELSE ColumnLetters(n, <<>>)

\* Python values: int, str, bool, None, list, and dict as the list of its
\* items in insertion order. t is the type; n holds the number of an int
\* or a bool, s the characters of a str, items the items of a list or dict.
PyInt(n)   == [t |-> "int",  n |-> n, s |-> <<>>, items |-> <<>>]
PyStr(s)   == [t |-> "str",  n |-> 0, s |-> s,    items |-> <<>>]
PyBool(b)  == [t |-> "bool", n |-> IF b THEN 1 ELSE 0, s |-> <<>>, items |-> <<>>]
PyNone     == [t |-> "None", n |-> 0, s |-> <<>>, items |-> <<>>]
PyList(xs) == [t |-> "list", n |-> 0, s |-> <<>>, items |-> xs]
PyDict(kv) == [t |-> "dict", n |-> 0, s |-> <<>>, items |-> kv]

\* str(x) of a cell value.
Str(x) ==
    CASE x.t = "str"  -> x.s
      [] x.t = "int"  -> IntToText(x.n)
      [] x.t = "bool" -> IF x.n = 1 THEN Text("True") ELSE Text("False")
      [] x.t = "None" -> Text("None")

\* `str(value) if value is not None else ""`
ValueText(x) == IF x.t = "None" THEN <<>> ELSE Str(x)

\* A string written between quotes without any escape.
EscapeNothing(s) == s

\* The body of a JSON string: quote and backslash are escaped.
RECURSIVE Escape(_)
Escape(s) ==
    IF s = <<>> THEN <<>>
    ELSE (IF Head(s) \in {"\"", "\\"} THEN <<"\\", Head(s)>> ELSE <<Head(s)>>)
            \o Escape(Tail(s))

RECURSIVE Unescape(_)
Unescape(s) ==
    IF s = <<>> THEN <<>>
    ELSE IF Head(s) = "\\" /\ Len(s) > 1
         THEN <<s[2]>> \o Unescape(Tail(Tail(s)))
         ELSE <<Head(s)>> \o Unescape(Tail(s))

\* The tokens of a JSON text; the white space json.dumps(indent=2) puts
\* between them is left out.
Token(kind, text) == [kind |-> kind, text |-> text]
Punct(c) == Token("punct", <<c>>)

\* json.dumps(x, indent=2, ensure_ascii=False).
RECURSIVE Dumps(_)
RECURSIVE DumpItems(_)
RECURSIVE DumpMembers(_)
Dumps(x) ==
    CASE x.t = "int"  -> <<Token("number", IntToText(x.n))>>
      [] x.t = "str"  -> <<Token("string", Escape(x.s))>>
      [] x.t = "bool" -> <<Token("literal", IF x.n = 1 THEN Text("true") ELSE Text("false"))>>
      [] x.t = "None" -> <<Token("literal", Text("null"))>>
      [] x.t = "list" -> <<Punct("[")>> \o DumpItems(x.items) \o <<Punct("]")>>
      [] x.t = "dict" -> <<Punct("{")>> \o DumpMembers(x.items) \o <<Punct("}")>>

DumpItems(s) ==
    IF s = <<>> THEN <<>>
    ELSE Dumps(s[1])
            \o (IF Len(s) > 1 THEN <<Punct(",")>> \o DumpItems(Tail(s)) ELSE <<>>)

DumpMembers(kv) ==
    IF kv = <<>> THEN <<>>
    ELSE <<Token("string", Escape(kv[1].key)), Punct(":")>> \o Dumps(kv[1].value)
            \o (IF Len(kv) > 1 THEN <<Punct(",")>> \o DumpMembers(Tail(kv)) ELSE <<>>)

\* json.loads(text): the value that starts at token p and the position
\* behind it.
RECURSIVE ParseValue(_, _)
RECURSIVE ParseItems(_, _, _)
RECURSIVE ParseMembers(_, _, _)
ParseValue(text, p) ==
    LET tok == text[p]
    IN CASE tok.kind = "number" ->
                [value |-> PyInt(TextToInt(tok.text)), next |-> p + 1]
         [] tok.kind = "string" ->
                [value |-> PyStr(Unescape(tok.text)), next |-> p + 1]
         [] tok.kind = "literal" ->
                [value |-> IF tok.text = Text("null") THEN PyNone
                           ELSE PyBool(tok.text = Text("true")),
                 next |-> p + 1]
         [] tok = Punct("[") ->
                IF text[p + 1] = Punct("]")
                THEN [value |-> PyList(<<>>), next |-> p + 2]
                ELSE ParseItems(text, p + 1, <<>>)
         [] tok = Punct("{") ->
                IF text[p + 1] = Punct("}")
                THEN [value |-> PyDict(<<>>), next |-> p + 2]
                ELSE ParseMembers(text, p + 1, <<>>)

ParseItems(text, p, items) ==
    LET item == ParseValue(text, p)
    IN IF text[item.next] = Punct(",")
       THEN ParseItems(text, item.next + 1, Append(items, item.value))
       ELSE [value |-> PyList(Append(items, item.value)), next |-> item.next + 1]

ParseMembers(text, p, members) ==
    LET key  == Unescape(text[p].text)
        item == ParseValue(text, p + 2)
    IN IF text[item.next] = Punct(",")
       THEN ParseMembers(text, item.next + 1,
                         Append(members, [key |-> key, value |-> item.value]))
       ELSE [value |-> PyDict(Append(members, [key |-> key, value |-> item.value])),
             next |-> item.next + 1]

Loads(text) == ParseValue(text, 1).value

\* d[key] of a dict.
Get(d, key) ==
    d.items[CHOOSE k \in DOMAIN d.items : d.items[k].key = Text(key)].value

\* An item of a dict literal.
Item(key, x) == [key |-> Text(key), value |-> x]

\* f"{num_to_excel_col(col)}{row}"
Address(c) == num_to_excel_col(c.col) \o IntToText(c.row)

\* The dict exported for a zone cell (export.py, lines 67-73; main.py,
\* lines 651-657).
ExportedCell(cell) ==
    PyDict(<<Item("address", PyStr(Address(cell))),
             Item("row", PyInt(cell.row)),
             Item("col", PyInt(cell.col)),
             Item("col_letter", PyStr(num_to_excel_col(cell.col))),
             Item("value", PyStr(ValueText(cell.value)))>>)

\* format_cells_for_export (export.py, lines 61-74).
format_cells_for_export(zcells) ==
    PyList([k \in DOMAIN zcells |-> ExportedCell(zcells[k])])

\* format_labels_for_export (export.py, lines 76-91).
format_labels_for_export(ls) ==
    PyList([k \in DOMAIN ls |->
        PyDict(<<Item("address", PyStr(Address(ls[k]))),
                 Item("row", PyInt(ls[k].row)),
                 Item("col", PyInt(ls[k].col)),
                 Item("col_letter", PyStr(num_to_excel_col(ls[k].col))),
                 Item("value", PyStr(ValueText(ls[k].value))),
                 Item("type", PyStr(ls[k].type)),
                 Item("position", PyStr(ls[k].position))>>)])

\* The labels of one slot of the four color export (main.py, lines 660-670).
SlotLabels(ls, slot) ==
    LET OfSlot(label) == label.type = Text(slot)
        sel == SelectSeq(ls, OfSlot)
    IN PyList([k \in DOMAIN sel |->
        PyDict(<<Item("address", PyStr(Address(sel[k]))),
                 Item("row", PyInt(sel[k].row)),
                 Item("col", PyInt(sel[k].col)),
                 Item("col_letter", PyStr(num_to_excel_col(sel[k].col))),
                 Item("value", PyStr(ValueText(sel[k].value))),
                 Item("distance", PyInt(sel[k].distance))>>)])

\* The bounds exported for a zone (export.py, lines 45-52; main.py, lines
\* 634-641).
ExportedBounds(b) ==
    PyDict(<<Item("min_row", PyInt(b.min_row)),
             Item("max_row", PyInt(b.max_row)),
             Item("min_col", PyInt(b.min_col)),
             Item("max_col", PyInt(b.max_col)),
             Item("min_col_letter", PyStr(num_to_excel_col(b.min_col))),
             Item("max_col_letter", PyStr(num_to_excel_col(b.max_col)))>>)

\* zone_data of export_to_json (export.py, lines 42-57).
ZoneData(zone) ==
    PyDict(<<Item("id", PyInt(zone.id)),
             Item("bounds", ExportedBounds(zone.bounds)),
             Item("cell_count", PyInt(zone.cell_count)),
             Item("cells", format_cells_for_export(zone.cells)),
             Item("labels", format_labels_for_export(zone.labels))>>)

\* zone_data of export_to_json_with_four_colors (main.py, lines 631-672).
ZoneDataFourColors(zone) ==
    PyDict(<<Item("id", PyInt(zone.id)),
             Item("bounds", ExportedBounds(zone.bounds)),
             Item("cell_count", PyInt(zone.cell_count)),
             Item("cells", format_cells_for_export(zone.cells)),
             Item("labels",
                  PyDict(<<Item("h1", SlotLabels(zone.labels, "h1")),
                           Item("h2", SlotLabels(zone.labels, "h2")),
                           Item("v1", SlotLabels(zone.labels, "v1")),
                           Item("v2", SlotLabels(zone.labels, "v2"))>>))>>)

\* f"#{color}"
Hash(color) == <<"#">> \o color

\* datetime.now().isoformat()
Now == Text("2024-01-01T00:00:00")

\* export_data of export_to_json (export.py, lines 14-57) for a palette of
\* color pairs, which has neither label_colors nor label1_color.
ExportData(zs, sheet_name, palette) ==
    PyDict(<<Item("date_export", PyStr(Now)),
             Item("sheet_name", PyStr(sheet_name)),
             Item("color_palette",
                  PyDict(<<Item("zone_color", PyStr(Hash(palette.zone_color))),
                           Item("zone_name", PyStr(palette.zone_name))>>)),
             Item("zones", PyList([k \in DOMAIN zs |-> ZoneData(zs[k])]))>>)

\* One of the four header slots of the exported palette (main.py, lines
\* 591-609): the color and name of pair k, empty when there is no pair k.
HeaderSlot(palette, k, role) ==
    PyDict(<<Item("color",
                  PyStr(IF k <= Len(palette.label_pairs)
                        THEN Hash(palette.label_pairs[k][role].color) ELSE <<>>)),
             Item("name",
                  PyStr(IF k <= Len(palette.label_pairs)
                        THEN palette.label_pairs[k][role].name ELSE <<>>))>>)

\* export_data of export_to_json_with_four_colors (main.py, lines 580-680).
ExportDataFourColors(zs, sheet_name, palette) ==
    PyDict(<<Item("date_export", PyStr(Now)),
             Item("sheet_name", PyStr(sheet_name)),
             Item("detection_mode", PyStr(Text("four_colors_system"))),
             Item("color_palette",
                  PyDict(<<Item("zone_color", PyStr(Hash(palette.zone_color))),
                           Item("zone_name", PyStr(palette.zone_name)),
                           Item("headers",
                                PyDict(<<Item("h1", HeaderSlot(palette, 1, "horizontal")),
                                         Item("h2", HeaderSlot(palette, 2, "horizontal")),
                                         Item("v1", HeaderSlot(palette, 1, "vertical")),
                                         Item("v2", HeaderSlot(palette, 2, "vertical"))>>))>>)),
             Item("zones", PyList([k \in DOMAIN zs |-> ZoneDataFourColors(zs[k])]))>>)

Exporters == {"export_to_json", "export_to_json_with_four_colors"}

\* The export function returns its JSON text.
ExportReturn ==
    /\ entry \in Exporters
    /\ pc = "export"
    /\ json_text' = Dumps(IF entry = "export_to_json"
                          THEN ExportData(zones, Text("Feuil1"), color_palette)
                          ELSE ExportDataFourColors(zones, Text("Feuil1"), color_palette))
    /\ pc' = "exported"
    /\ UNCHANGED <<entry, inputVars, groupVars, labelVars, walkVars, sighted,
                   mergeVars, sessionVars, reread>>

\* The JSON text is read again.
ExportReread ==
    /\ entry \in Exporters
    /\ pc = "exported"
    /\ reread' = Loads(json_text)
    /\ pc' = "done"
    /\ UNCHANGED <<entry, inputVars, groupVars, labelVars, walkVars, sighted,
                   mergeVars, sessionVars, json_text>>

\* The values get_cell_value gives a cell (excel_utils.py, lines 293-297):
\* the empty string for an empty cell, else the value of the cell.
CellValues ==
    {PyStr(<<>>), PyStr(<<"a", "\\", "\"", "b">>), PyStr(<<"1", "2">>), PyInt(12)}

\* The positions of the exported cells: columns of one and of two letters.
ExportGrid == {<<1, 1>>, <<2, 1>>, <<12, 27>>}

\* A zone as group_contiguous_cells or merge_zones makes it, its cells
\* being the entries of the Color Index.
ValuedZone(zc, values, ls) ==
    [id         |-> 1,
     cells      |-> [k \in DOMAIN zc |->
                        [row |-> zc[k][1], col |-> zc[k][2], value |-> values[k]]],
     bounds     |-> BoundsOf(zc),
     cell_count |-> Len(zc),
     labels     |-> ls]

\* A label as the detectors make it: type h_pair_0 or h1.
ExportLabel(type) ==
    [row |-> 1, col |-> 28, value |-> PyStr(Text("Total")), type |-> Text(type),
     position |-> Text("top"), distance |-> 1]

\* A validated palette of n pairs with its colors and names as texts.
TextPalette(n) ==
    [zone_color  |-> Text("FFFF00"),
     zone_name   |-> Text("Jaune"),
     label_pairs |-> [k \in 1..n |->
        [horizontal |-> [color |-> <<"00FF0">> \o NatToText(k),
                         name  |-> <<"Headers H">> \o NatToText(k)],
         vertical   |-> [color |-> <<"0000F">> \o NatToText(k),
                         name  |-> <<"Headers V">> \o NatToText(k)]]]]

\* An export of no zone or of one zone of at most MaxExportCells cells.
InitExport ==
    /\ entry \in Exporters
    /\ pc = "export"
    /\ color_cells = <<>>
    /\ \E n \in 1..MaxPairs : color_palette = TextPalette(n)
    /\ cells = <<>>
    /\ i = 1
    /\ visited = {}
    /\ stack = <<>>
    /\ zone_cells = <<>>
    /\ \/ zones = <<>>
       \/ \E zc \in DistinctSeqs(ExportGrid, MaxExportCells) \ {<<>>} :
            \E values \in [DOMAIN zc -> CellValues],
               ls \in {<<>>, <<ExportLabel("h_pair_0")>>, <<ExportLabel("h1")>>} :
                zones = <<ValuedZone(zc, values, ls)>>
    /\ IdleLabels /\ IdleWalk
    /\ IdleMerge
    /\ IdleSession
    /\ json_text = <<>>
    /\ reread = <<>>

NextExport ==
    \/ ExportReturn
    \/ ExportReread

SpecExport == InitExport /\ [][NextExport]_vars

\* ================================================================ claims
\* Orthogonal contact, stated by the distance between the two cells.
Touching(a, b) == Abs(a[1] - b[1]) + Abs(a[2] - b[2]) = 1

DiagonalContact(a, b) == Abs(a[1] - b[1]) = 1 /\ Abs(a[2] - b[2]) = 1

\* The cells of S joined to the cells of R by paths of touching cells of S.
RECURSIVE Joined(_, _)
Joined(S, R) ==
    LET more == {x \in S \ R : \E y \in R : Touching(x, y)}
    IN IF more = {} THEN R ELSE Joined(S, R \cup more)

GroupReturned == pc \notin {"group", "dfs"}

\* The places (zone index, cell index) where cell c occurs in the result.
Occurrences(c) ==
    UNION {{<<z, k>> : k \in {n \in DOMAIN zones[z].cells : zones[z].cells[n] = c}} :
              z \in DOMAIN zones}

RowMajor(cs) ==
    \A a, b \in DOMAIN cs :
        a < b => \/ Row(cs[a]) < Row(cs[b])
                 \/ (Row(cs[a]) = Row(cs[b]) /\ Col(cs[a]) < Col(cs[b]))

\* C1 - Zone partition: when group_contiguous_cells has returned, every
\* input cell occurs exactly once in exactly one zone, and every cell of a
\* zone is an input cell.
C1_ZonePartition ==
    (entry = "group" /\ GroupReturned) =>
        /\ \A c \in Range(cells) : Cardinality(Occurrences(c)) = 1
        /\ \A z \in DOMAIN zones : Range(zones[z].cells) \subseteq Range(cells)

C1_Witness ==
    /\ entry = "group" /\ GroupReturned
    /\ Len(cells) >= 4
    /\ Len(zones) = 2
    /\ \E z \in DOMAIN zones : Len(zones[z].cells) >= 3

\* C2 - Connectivity: the cells of every returned zone are joined to one
\* another by paths of orthogonally touching cells of that zone; diagonal
\* contact alone joins nothing.
C2_Connectivity ==
    entry = "group" =>
        \A z \in DOMAIN zones :
            LET S == Range(zones[z].cells)
            IN \A c \in S : Joined(S, {c}) = S

C2_Witness ==
    /\ entry = "group" /\ GroupReturned
    /\ \E z \in DOMAIN zones :
        /\ Len(zones[z].cells) >= 3
        /\ \E a, b \in Range(zones[z].cells) : DiagonalContact(a, b)
    /\ \E y, z \in DOMAIN zones :
        /\ y # z
        /\ \E a \in Range(zones[y].cells), b \in Range(zones[z].cells) :
              DiagonalContact(a, b)

\* C3 - Maximality: no two cells of different returned zones touch
\* orthogonally, whatever the order of the input list.
C3_Maximality ==
    (entry = "group" /\ GroupReturned) =>
        \A y, z \in DOMAIN zones :
            y # z =>
                \A a \in Range(zones[y].cells), b \in Range(zones[z].cells) :
                    ~Touching(a, b)

C3_Witness ==
    /\ entry = "group" /\ GroupReturned
    /\ ~RowMajor(cells)
    /\ Len(zones) >= 2
    /\ \E z \in DOMAIN zones :
        /\ Len(zones[z].cells) >= 2
        /\ zones[z].cells[1] # cells[1]
        /\ \E a, b \in DOMAIN cells :
              /\ a + 1 < b
              /\ cells[a] \in Range(zones[z].cells)
              /\ cells[b] \in Range(zones[z].cells)
              /\ cells[a + 1] \notin Range(zones[z].cells)

\* ------------------------------------------------------------ the walks
Opposite(own) == IF own = "horizontal" THEN "vertical" ELSE "horizontal"

\* Number of cells between the walked cell and the sheet edge.
AxisLen(own) == IF own = "horizontal" THEN wrow - 1 ELSE wcol - 1

\* The cell d steps from the walked cell on the scan axis.
AxisPos(own, d) ==
    IF own = "horizontal" THEN <<wrow - d, wcol>> ELSE <<wrow, wcol - d>>

HasRole(own, d, role) ==
    /\ AxisPos(own, d) \in DOMAIN label_map
    /\ label_map[AxisPos(own, d)].direction = role

PairAt(own, d) == label_map[AxisPos(own, d)].pair_id

\* Distances of the labels of the walk's own role.
OwnAt(own) == {d \in 1..AxisLen(own) : HasRole(own, d, own)}

\* What the two walks of the cell returned.
Returned(own) ==
    IF own = "horizontal" THEN horizontal_labels ELSE vertical_labels

ReturnedDistances(own) == {l.distance : l \in Range(Returned(own))}

WalksReturned == entry = "walk" /\ pc = "done"

Roles == {"horizontal", "vertical"}

\* Positions past the first own-role label holding an opposite-role label
\* of the pair of that first label.
StopsOfFirstPair(own) ==
    {d \in 1..AxisLen(own) :
        /\ HasRole(own, d, Opposite(own))
        /\ \E d0 \in OwnAt(own) :
              /\ \A e \in OwnAt(own) : d0 <= e
              /\ d0 < d
              /\ PairAt(own, d0) = PairAt(own, d)}

\* Positions holding an opposite-role label whose pair is the pair of the
\* nearest own-role label lying before it.
StopsOfCurrentPair(own) ==
    {d \in 1..AxisLen(own) :
        /\ HasRole(own, d, Opposite(own))
        /\ \E d1 \in OwnAt(own) :
              /\ d1 < d
              /\ \A e \in OwnAt(own) : e < d => e <= d1
              /\ PairAt(own, d1) = PairAt(own, d)}

\* C4 as stated - the walk stops at the first position past the first
\* collected label that holds an opposite-role label of the pair of that
\* first label: nothing at or past that position is returned.
C4_StopsAtPairOfFirstLabel ==
    WalksReturned =>
        \A own \in Roles :
            \A s \in StopsOfFirstPair(own) :
                \A d \in ReturnedDistances(own) : d < s

\* C4 as amended - the walk stops at the first position holding an
\* opposite-role label whose pair is the current pair, the pair of the
\* label collected last before that position; the walk returns exactly the
\* own-role labels lying before that position, nearest first.
C4_StopsAtCurrentPair ==
    WalksReturned =>
        \A own \in Roles :
            /\ ReturnedDistances(own) =
                  {d \in OwnAt(own) : \A s \in StopsOfCurrentPair(own) : d < s}
            /\ \A a, b \in DOMAIN Returned(own) :
                  a < b => Returned(own)[a].distance < Returned(own)[b].distance

\* A walk that collected a label, met the partner of the current pair and
\* left a same-role label behind it.
C4_Witness ==
    /\ WalksReturned
    /\ \E own \in Roles :
        /\ Returned(own) # <<>>
        /\ \E s \in StopsOfCurrentPair(own) :
              /\ \E d \in OwnAt(own) : d > s
              /\ \A d \in ReturnedDistances(own) : d < s

\* C5 as stated - every label a walk returns has the color of the first
\* label the walk collected.
C5_SingleColorPerWalk ==
    WalksReturned =>
        \A own \in Roles :
            \A l \in Range(Returned(own)) : l.color = Returned(own)[1].color

\* C5 as amended - every label a walk returns has the role of the walk
\* and the color of its cell, and a same-role label of another pair met
\* before the walk stops is returned as well: no own-role label nearer than
\* a returned one is left out.
C5_SingleRolePerWalk ==
    WalksReturned =>
        \A own \in Roles :
            /\ \A l \in Range(Returned(own)) :
                  /\ l.direction = own
                  /\ <<l.row, l.col>> = AxisPos(own, l.distance)
                  /\ l.color = label_map[<<l.row, l.col>>].color
                  /\ l.pair_id = PairAt(own, l.distance)
            /\ \A d \in OwnAt(own), e \in ReturnedDistances(own) :
                  d < e => d \in ReturnedDistances(own)

\* A walk that returned labels of two pairs.
C5_Witness ==
    /\ WalksReturned
    /\ \E own \in Roles :
        \E a, b \in DOMAIN Returned(own) :
            /\ a < b
            /\ Returned(own)[a].pair_id # Returned(own)[b].pair_id
            /\ Returned(own)[a].color # Returned(own)[b].color

\* C10 - Walk geometry and termination: the upward walk of the cell (r, c)
\* looks only at rows 1..r-1 of column c, the leftward walk only at columns
\* 1..c-1 of row r; each runs at most r - 1 (resp. c - 1) iterations; every
\* label collected lies on the scan axis and carries its distance to the
\* walked cell.
C10_WalkGeometry ==
    (entry = "walk" /\ pc \in {"walk_h", "walk_v", "done"}) =>
        /\ pc = "walk_h" =>
              /\ inspected \subseteq {<<k, wcol>> : k \in 1..(wrow - 1)}
              /\ wsteps <= wrow - 1
              /\ \A l \in Range(wlabels) :
                    /\ l.col = wcol
                    /\ 1 <= l.row /\ l.row < wrow
                    /\ l.distance = wrow - l.row
        /\ pc \in {"walk_v", "done"} =>
              /\ inspected \subseteq {<<wrow, k>> : k \in 1..(wcol - 1)}
              /\ wsteps <= wcol - 1
              /\ \A l \in Range(wlabels) :
                    /\ l.row = wrow
                    /\ 1 <= l.col /\ l.col < wcol
                    /\ l.distance = wcol - l.col
              /\ \A l \in Range(horizontal_labels) :
                    /\ l.col = wcol
                    /\ 1 <= l.row /\ l.row < wrow
                    /\ l.distance = wrow - l.row
        /\ pc = "done" => vertical_labels = wlabels

\* Both walks ran to the sheet edge without a stop and returned labels.
C10_Witness ==
    /\ WalksReturned
    /\ wrow >= 3 /\ wcol >= 3
    /\ ~wbroke
    /\ wsteps = wcol - 1
    /\ inspected = {<<wrow, k>> : k \in 1..(wcol - 1)}
    /\ Len(horizontal_labels) >= 2
    /\ Len(vertical_labels) >= 2

\* ---------------------------------------------------------- the resolver
\* The label list find_labels_with_alternating_pairs returned last.
ZoneResolved == entry = "detect" /\ pc \in {"resolve", "done"} /\ zi > 1

ReturnedLabels == zones[zi - 1].labels

Count(ls, key) == Cardinality({k \in DOMAIN ls : LabelKey(ls[k]) = key})

Keys(ls) == {LabelKey(ls[k]) : k \in DOMAIN ls}

HasColor(cell, color) == cell \in Range(CellsOfColor(color_cells, color))

\* A single pair, and column 2 reads V, Z, Z from the top.
ColumnVZZ ==
    /\ entry = "detect"
    /\ Len(color_palette.label_pairs) = 1
    /\ HasColor(<<1, 2>>, h_color(0))
    /\ HasColor(<<2, 2>>, zone_color)
    /\ HasColor(<<3, 2>>, zone_color)

\* C7 - Label stop-rule case: with a single pair and a column V, Z, Z,
\* the upward walk of each Z returns exactly one label, V, at distance 1
\* for the upper Z and 2 for the lower Z.
C7_ColumnVZZ ==
    (ColumnVZZ /\ pc = "add" /\ wcol = 2) =>
        /\ Len(horizontal_labels) = 1
        /\ horizontal_labels[1].row = 1
        /\ horizontal_labels[1].col = 2
        /\ horizontal_labels[1].direction = "horizontal"
        /\ wrow = 2 => horizontal_labels[1].distance = 1
        /\ wrow = 3 => horizontal_labels[1].distance = 2

C7_Witness ==
    /\ ColumnVZZ
    /\ pc = "add"
    /\ wcol = 2 /\ wrow = 3
    /\ zones[zi].cells = <<<<2, 2>>, <<3, 2>>>>

\* The sheet of the scenario: zone color on the block, the color collected
\* by the leftward walk at (2,1), (3,1), the color collected by the upward
\* walk at (1,2), (1,3).
ScenarioSheet ==
    [c \in BlockCells \cup HeaderCells |->
        IF c \in BlockCells THEN zone_color
        ELSE IF Col(c) = 1 THEN v_color(0) ELSE h_color(0)]

Scenario == entry = "detect" /\ color_cells = ColorIndex(ScenarioSheet)

\* C8 - Scenario result: one zone, bounds rows 2-3 and columns 2-3, 4
\* cells; each zone cell gets exactly one label from each walk; the zone
\* has 4 labels distinct by (row, col, direction, pair_id), 2 per direction.
C8_ScenarioResult ==
    Scenario =>
        /\ pc = "add" => Len(horizontal_labels) = 1 /\ Len(vertical_labels) = 1
        /\ pc = "done" =>
              /\ Len(zones) = 1
              /\ zones[1].bounds =
                    [min_row |-> 2, max_row |-> 3, min_col |-> 2, max_col |-> 3]
              /\ zones[1].cell_count = 4
              /\ Range(zones[1].cells) = BlockCells
              /\ Keys(zones[1].labels) =
                    {<<1, 2, "horizontal", 0>>, <<1, 3, "horizontal", 0>>,
                     <<2, 1, "vertical", 0>>, <<3, 1, "vertical", 0>>}

C8_Witness ==
    /\ Scenario
    /\ pc = "done"
    /\ Len(zones[1].labels) = 4
    /\ Len(sighted) = 8

\* C9 as stated - in the scenario every label a zone cell gets from a walk
\* has distance 1, and every label of the zone's list has distance 1.
C9_AllDistancesOne ==
    Scenario =>
        /\ pc = "add" =>
              \A l \in Range(horizontal_labels) \cup Range(vertical_labels) :
                  l.distance = 1
        /\ pc = "done" => \A l \in Range(zones[1].labels) : l.distance = 1

\* The distance recorded in the zone's list for the header cell at pos.
RecordedDistances(pos) ==
    {l.distance : l \in {m \in Range(zones[1].labels) : <<m.row, m.col>> = pos}}

\* C9 as amended - in the scenario the label a zone cell gets from the
\* leftward walk has distance 1 from column 2 and 2 from column 3, the one
\* it gets from the upward walk has distance 1 from row 2 and 2 from row 3;
\* with the cell lists in the scan order of the Color Index the zone's list
\* records (1,2), (2,1), (3,1) at distance 1 and (1,3) at distance 2.
C9_ScenarioDistances ==
    Scenario =>
        /\ pc = "add" =>
              /\ \A l \in Range(horizontal_labels) :
                    l.distance = IF wrow = 2 THEN 1 ELSE 2
              /\ \A l \in Range(vertical_labels) :
                    l.distance = IF wcol = 2 THEN 1 ELSE 2
        /\ pc = "done" =>
              /\ RecordedDistances(<<1, 2>>) = {1}
              /\ RecordedDistances(<<2, 1>>) = {1}
              /\ RecordedDistances(<<3, 1>>) = {1}
              /\ RecordedDistances(<<1, 3>>) = {2}

C9_Witness ==
    /\ Scenario
    /\ pc = "add"
    /\ wrow = 3 /\ wcol = 3
    /\ Len(horizontal_labels) = 1 /\ horizontal_labels[1].distance = 2
    /\ Len(vertical_labels) = 1 /\ vertical_labels[1].distance = 2

\* ------------------------------------------- group_contiguous_cells, 2
\* The connected components of a set of cells under orthogonal contact.
Components(S) == {Joined(S, {c}) : c \in S}

\* The cells of the zones before the k-th one.
EarlierCells(k) == UNION {Range(zones[j].cells) : j \in 1..(k - 1)}

\* The first position of the input list whose cell is in no zone before k.
FirstFree(k) == MinOf({n \in DOMAIN cells : cells[n] \notin EarlierCells(k)})

\* C12 - Bounding box tightness: each of the four bounds of every zone of
\* group_contiguous_cells is attained by a cell of the zone and no cell of
\* the zone lies outside them.
C12_TightBounds ==
    entry = "group" =>
        \A z \in DOMAIN zones :
            LET S == Range(zones[z].cells)
                b == zones[z].bounds
            IN /\ \A c \in S : /\ b.min_row <= c[1] /\ c[1] <= b.max_row
                               /\ b.min_col <= c[2] /\ c[2] <= b.max_col
               /\ \E c \in S : c[1] = b.min_row
               /\ \E c \in S : c[1] = b.max_row
               /\ \E c \in S : c[2] = b.min_col
               /\ \E c \in S : c[2] = b.max_col

C12_Witness ==
    /\ entry = "group" /\ GroupReturned
    /\ \E z \in DOMAIN zones :
        LET b == zones[z].bounds
        IN /\ b.max_row > b.min_row
           /\ b.max_col > b.min_col
           /\ zones[z].cells[1] # <<b.min_row, b.min_col>>
           /\ Len(zones[z].cells) < (b.max_row - b.min_row + 1) * (b.max_col - b.min_col + 1)

\* C13 - Zone ids in discovery order: the k-th zone of the list has id k,
\* and it is the component of the first cell of the input list that is in
\* none of the zones before it; on return the ids are exactly 1..N, N the
\* number of components.
C13_DiscoveryOrder ==
    (entry = "group" /\ GroupReturned) =>
        /\ \A k \in DOMAIN zones :
            /\ zones[k].id = k
            /\ Range(zones[k].cells) = Joined(Range(cells), {cells[FirstFree(k)]})
        /\ {zones[k].id : k \in DOMAIN zones} = 1..Cardinality(Components(Range(cells)))

C13_Witness ==
    /\ entry = "group" /\ GroupReturned
    /\ Len(zones) >= 2
    /\ Len(cells) = 4
    /\ \E n \in DOMAIN cells :
        /\ n > FirstFree(2)
        /\ cells[n] \in Range(zones[1].cells)
    /\ cells[FirstFree(2)] # zones[2].cells[Len(zones[2].cells)]

\* C14 - Order independence of zone discovery: the returned partition is
\* the set of connected components of the set of input cells, and the
\* (bounds, cell_count) pairs are the boxes and sizes of those components;
\* both depend on the set of cells only, so every permutation of the list
\* gives the same ones.
C14_OrderIndependence ==
    (entry = "group" /\ GroupReturned) =>
        LET K == Components(Range(cells))
        IN /\ {Range(zones[z].cells) : z \in DOMAIN zones} = K
           /\ Len(zones) = Cardinality(K)
           /\ {<<zones[z].bounds, zones[z].cell_count>> : z \in DOMAIN zones}
                = {<<[min_row |-> MinOf({c[1] : c \in S}),
                      max_row |-> MaxOf({c[1] : c \in S}),
                      min_col |-> MinOf({c[2] : c \in S}),
                      max_col |-> MaxOf({c[2] : c \in S})],
                     Cardinality(S)>> : S \in K}

C14_Witness ==
    /\ entry = "group" /\ GroupReturned
    /\ ~RowMajor(cells)
    /\ Len(zones) >= 2
    /\ \E y, z \in DOMAIN zones :
        /\ y < z
        /\ \E a \in Range(zones[y].cells), b \in Range(zones[z].cells) :
              a[1] > b[1] \/ (a[1] = b[1] /\ a[2] > b[2])
    /\ \E z \in DOMAIN zones :
        /\ Len(zones[z].cells) >= 3
        /\ ~RowMajor(zones[z].cells)

\* C15 - Zone size and edge cases: every zone has cell_count equal to the
\* length of its cells list and at least 1; an empty input list returns no
\* zone; an input cell that touches no other input cell is returned as a zone
\* of its own with cell_count 1.
C15_ZoneSize ==
    entry = "group" =>
        /\ \A z \in DOMAIN zones :
            /\ zones[z].cell_count = Len(zones[z].cells)
            /\ zones[z].cell_count >= 1
        /\ GroupReturned =>
            /\ cells = <<>> => zones = <<>>
            /\ \A c \in Range(cells) :
                (\A d \in Range(cells) : ~Touching(c, d)) =>
                    \E z \in DOMAIN zones :
                        /\ zones[z].cells = <<c>>
                        /\ zones[z].cell_count = 1
                        /\ \A y \in DOMAIN zones : c \in Range(zones[y].cells) => y = z

C15_Witness ==
    /\ entry = "group" /\ GroupReturned
    /\ Len(cells) >= 3
    /\ \E z \in DOMAIN zones : zones[z].cell_count = 1
    /\ \E z \in DOMAIN zones : zones[z].cell_count >= 2

\* ------------------------------ detect_zones_with_alternating_pairs, 2
DetectReturned == entry = "detect" /\ pc = "done"

\* The cells of the sheet that carry a color other than the zone color.
HeaderColored ==
    UNION {Range(color_cells[color]) : color \in DOMAIN color_cells \ {zone_color}}

\* No header-colored cell is above cell c in its column or left of it in
\* its row.
NothingInLine(c) ==
    \A h \in HeaderColored :
        ~ \/ (h[2] = c[2] /\ h[1] < c[1])
          \/ (h[1] = c[1] /\ h[2] < c[2])

\* The input of the run is one of the degenerate ones: no label pair, no
\* zone-colored cell, or no zone-colored cell with a header in line.
Degenerate ==
    \/ color_palette.label_pairs = <<>>
    \/ zone_color \notin DOMAIN color_cells
    \/ \A c \in Range(CellsOfColor(color_cells, zone_color)) : NothingInLine(c)

\* C16 - Degenerate inputs give empty results, not errors: when
\* detect_zones_with_alternating_pairs has returned, a palette without
\* label pairs has given every zone an empty label list, a sheet without
\* zone-colored cells has given no zone, and every zone none of whose cells
\* has a header-colored cell above it or left of it has an empty label list;
\* and on such inputs the run is never stuck before it returns.
C16_DegenerateInputs ==
    /\ DetectReturned =>
        /\ color_palette.label_pairs = <<>> =>
              \A z \in DOMAIN zones : zones[z].labels = <<>>
        /\ zone_color \notin DOMAIN color_cells => zones = <<>>
        /\ \A z \in DOMAIN zones :
              (\A c \in Range(zones[z].cells) : NothingInLine(c)) =>
                  zones[z].labels = <<>>
    /\ (entry = "detect" /\ pc # "done" /\ Degenerate) => ENABLED Next

C16_Witness ==
    /\ DetectReturned
    /\ HeaderColored # {}
    /\ \E y, z \in DOMAIN zones :
        /\ zones[y].labels # <<>>
        /\ zones[z].labels = <<>>
        /\ \A c \in Range(zones[z].cells) : NothingInLine(c)
        /\ \E h \in HeaderColored, c \in Range(zones[z].cells) : h[2] = c[1]

\* --------------------------------------------------------- pair isolation
\* The header row [H1, H1, H2, H2] over the zone row [Z, Z, Z, Z], the
\* headers having the role the walk named by role collects.
IsolationSheet(role) ==
    [c \in HeaderRowCells \cup ZoneRowCells |->
        IF c \in ZoneRowCells THEN zone_color
        ELSE IF role = "horizontal"
             THEN h_color(IF c[2] <= 2 THEN 0 ELSE 1)
             ELSE v_color(IF c[2] <= 2 THEN 0 ELSE 1)]

\* The two walks of the zone cell (wrow, wcol) have returned.
CellWalked == entry = "detect" /\ pc = "add"

\* C11 - Pair isolation: on a sheet made of a header row directly above a
\* zone row, the labels the two walks of a zone cell return are headers of
\* the cell's own column only; under [H1, H1, H2, H2] each of the four cells
\* gets exactly the header above it, of pair P1 for the first two cells and
\* of pair P2 for the last two, when the headers have the role the upward
\* walk collects, and no label at all when they have the other role.
C11_PairIsolation ==
    CellWalked =>
        LET found == horizontal_labels \o vertical_labels
            own   == IF wcol <= 2 THEN 0 ELSE 1
        IN /\ \A k \in DOMAIN found : found[k].row = 1 /\ found[k].col = wcol
           /\ color_cells = ColorIndex(IsolationSheet("horizontal")) =>
                /\ Len(found) = 1
                /\ found[1].pair_id = own
                /\ found[1].color = h_color(own)
                /\ found[1].distance = 1
           /\ color_cells = ColorIndex(IsolationSheet("vertical")) => found = <<>>

C11_Witness ==
    /\ CellWalked
    /\ color_cells = ColorIndex(IsolationSheet("horizontal"))
    /\ wcol = 3
    /\ Len(labels) = 2
    /\ \A k \in DOMAIN labels : labels[k].pair_id = 0
    /\ Len(horizontal_labels) = 1
    /\ horizontal_labels[1].pair_id = 1

\* ------------------------------------------------------------ merge_zones
\* The distance between the ranges lo1..hi1 and lo2..hi2 of one axis: 0
\* when they share a position, else the difference of the facing ends.
AxisDistance(lo1, hi1, lo2, hi2) ==
    IF lo2 > hi1 THEN lo2 - hi1
    ELSE IF lo1 > hi2 THEN lo1 - hi2 ELSE 0

RowDistance(b1, b2) == AxisDistance(b1.min_row, b1.max_row, b2.min_row, b2.max_row)
ColDistance(b1, b2) == AxisDistance(b1.min_col, b1.max_col, b2.min_col, b2.max_col)

\* merge_zones has returned on a list of two zones with any boxes.
PairMerged == entry = "boxes" /\ pc = "done" /\ Len(zones0) = 2

\* C17 - Merge boundary: on a list of two zones whose row ranges overlap,
\* merge_zones returns one zone when min_col of the one box minus max_col of
\* the other is exactly max_gap, and returns the two zones apart when it is
\* max_gap + 1.
C17_MergeBoundary ==
    PairMerged =>
        \A l, r \in DOMAIN zones0 :
            LET left  == zones0[l].bounds
                right == zones0[r].bounds
                sep   == right.min_col - left.max_col
            IN (l # r /\ RowDistance(left, right) = 0) =>
                /\ sep = max_gap =>
                      /\ Len(merge_result) = 1
                      /\ merge_result[1].cells = zones0[1].cells \o zones0[2].cells
                /\ sep = max_gap + 1 =>
                      /\ Len(merge_result) = 2
                      /\ \A k \in 1..2 : merge_result[k].cells = zones0[k].cells

C17_Witness ==
    /\ PairMerged
    /\ max_gap = 1
    /\ LET left == zones0[2].bounds
           right == zones0[1].bounds
       IN /\ right.min_col - left.max_col = max_gap
          /\ RowDistance(left, right) = 0
          /\ left.min_row < right.min_row
          /\ left.max_row < right.max_row
    /\ Len(merge_result) = 1

\* C18 - Merge candidacy covers every pair of near boxes: every call of
\* are_zones_adjacent on two boxes whose distance is at most max_gap along
\* the rows and along the columns, boxes that overlap on an axis being at
\* distance 0 on it, returns true.
C18_NearBoxesAreCandidates ==
    adjacent # <<>> =>
        ((/\ RowDistance(adjacent.bounds1, adjacent.bounds2) <= adjacent.max_gap
          /\ ColDistance(adjacent.bounds1, adjacent.bounds2) <= adjacent.max_gap)
            => adjacent.result)

\* merge_zones has returned on the zones of a detection.
MergeReturned == entry = "merge" /\ pc = "done"

\* The concatenation of the cells lists of the input zones ks, in order.
RECURSIVE CellsOfInputs(_)
CellsOfInputs(ks) ==
    IF ks = <<>> THEN <<>> ELSE zones0[ks[1]].cells \o CellsOfInputs(Tail(ks))

RECURSIVE LabelsOfInputs(_)
LabelsOfInputs(ks) ==
    IF ks = <<>> THEN <<>> ELSE zones0[ks[1]].labels \o LabelsOfInputs(Tail(ks))

RECURSIVE TotalCells(_)
TotalCells(zs) ==
    IF zs = <<>> THEN 0 ELSE Len(zs[1].cells) + TotalCells(Tail(zs))

\* The places (output zone, position) where the input zone k was absorbed.
AbsorbedAt(k) ==
    UNION {{<<o, n>> : n \in {m \in DOMAIN absorbed[o] : absorbed[o][m] = k}} :
              o \in DOMAIN absorbed}

\* The places (output zone, position) where cell c occurs in the result.
MergedOccurrences(c) ==
    UNION {{<<o, n>> : n \in {m \in DOMAIN merge_result[o].cells :
                                  merge_result[o].cells[m] = c}} :
              o \in DOMAIN merge_result}

\* C19 - Merge conserves cells: when merge_zones has returned, every input
\* zone was absorbed into exactly one output zone, the cells list and the
\* labels list of each output zone are the concatenations of those of the
\* input zones absorbed into it, cell_count is the length of the cells
\* list, every input cell occurs exactly once in the output and the totals
\* of cells are equal.
C19_MergeConservesCells ==
    MergeReturned =>
        /\ Len(absorbed) = Len(merge_result)
        /\ \A k \in DOMAIN zones0 : Cardinality(AbsorbedAt(k)) = 1
        /\ \A o \in DOMAIN merge_result :
            /\ merge_result[o].cells = CellsOfInputs(absorbed[o])
            /\ merge_result[o].labels = LabelsOfInputs(absorbed[o])
            /\ merge_result[o].cell_count = Len(merge_result[o].cells)
        /\ \A k \in DOMAIN zones0 :
            \A c \in Range(zones0[k].cells) : Cardinality(MergedOccurrences(c)) = 1
        /\ TotalCells(merge_result) = TotalCells(zones0)

C19_Witness ==
    /\ MergeReturned
    /\ Len(merge_result) = 2
    /\ \E o \in DOMAIN merge_result :
        /\ Len(absorbed[o]) = 2
        /\ Len(merge_result[o].labels) = 2
        /\ absorbed[o][2] > absorbed[o][1] + 1
        /\ merge_result[o].cell_count = 2
    /\ \E k \in DOMAIN zones0 : zones0[k].labels = <<>>

\* C20 - Merged bounds are the union box: each bound of every output zone
\* is the minimum, for min_row and min_col, or the maximum, for max_row and
\* max_col, of that bound over the input zones absorbed into it.
C20_UnionBox ==
    MergeReturned =>
        \A o \in DOMAIN merge_result :
            LET B == {zones0[k].bounds : k \in Range(absorbed[o])}
                b == merge_result[o].bounds
            IN /\ b.min_row = MinOf({x.min_row : x \in B})
               /\ b.max_row = MaxOf({x.max_row : x \in B})
               /\ b.min_col = MinOf({x.min_col : x \in B})
               /\ b.max_col = MaxOf({x.max_col : x \in B})
               /\ \A c \in Range(merge_result[o].cells) :
                    /\ b.min_row <= c[1] /\ c[1] <= b.max_row
                    /\ b.min_col <= c[2] /\ c[2] <= b.max_col

C20_Witness ==
    /\ MergeReturned
    /\ \E o \in DOMAIN merge_result :
        /\ Len(absorbed[o]) >= 2
        /\ \A k \in Range(absorbed[o]) :
            /\ zones0[k].bounds # merge_result[o].bounds
        /\ \E k \in Range(absorbed[o]) :
            /\ k # absorbed[o][1]
            /\ zones0[k].bounds.min_col < zones0[absorbed[o][1]].bounds.min_col
            /\ zones0[k].bounds.max_row > zones0[absorbed[o][1]].bounds.max_row

\* --------------------------------------------------------- merge_zones, 2
\* merge_zones has returned on a hand-made zone list.
BoxesMerged == entry = "boxes" /\ pc = "done"

\* C21 - Merge renumbers ids: whatever the ids and the length of the input
\* list, the k-th zone of the list merge_zones returns has id k.
C21_IdsRenumbered ==
    BoxesMerged => \A k \in DOMAIN merge_result : merge_result[k].id = k

\* Input zones a and b are adjacent by their own bounds.
InputsAdjacent(a, b) ==
    are_zones_adjacent(zones0[a].bounds, zones0[b].bounds, max_gap)

\* Input zone k starts an output zone: no zone before it that starts one
\* is adjacent to it.
RECURSIVE StartsZone(_)
StartsZone(k) ==
    \A n \in 1..(k - 1) : ~(StartsZone(n) /\ InputsAdjacent(n, k))

\* The zones before j that start an output zone and are adjacent to j.
Takers(j) == {n \in 1..(j - 1) : StartsZone(n) /\ InputsAdjacent(n, j)}

\* The smallest box around the boxes of the input zones a and b.
UnionOfInputs(a, b) ==
    [min_row |-> MinOf({zones0[a].bounds.min_row, zones0[b].bounds.min_row}),
     max_row |-> MaxOf({zones0[a].bounds.max_row, zones0[b].bounds.max_row}),
     min_col |-> MinOf({zones0[a].bounds.min_col, zones0[b].bounds.min_col}),
     max_col |-> MaxOf({zones0[a].bounds.max_col, zones0[b].bounds.max_col})]

\* The list is a chain A, B, C: A and B adjacent, B and C adjacent, A and
\* C not.
Chain ==
    /\ Len(zones0) = 3
    /\ InputsAdjacent(1, 2)
    /\ InputsAdjacent(2, 3)
    /\ ~InputsAdjacent(1, 3)

\* C22 - Single-pass merge rule: the output zones are started, in list
\* order, by the input zones no earlier starting zone is adjacent to; input
\* zone j is absorbed by the first starting zone before it whose own bounds
\* are adjacent to j's, and by no other; a chain A, B, C gives {A, B} and
\* {C}.
C22_SinglePass ==
    (BoxesMerged /\ Len(zones0) >= 2) =>
        /\ Len(absorbed) = Len(merge_result)
        /\ \A o \in DOMAIN absorbed :
            /\ StartsZone(absorbed[o][1])
            /\ \A n \in 2..Len(absorbed[o]) : absorbed[o][n - 1] < absorbed[o][n]
            /\ \A j \in DOMAIN zones0 :
                (j \in Range(Tail(absorbed[o]))) <=>
                    /\ Takers(j) # {}
                    /\ absorbed[o][1] = MinOf(Takers(j))
            /\ merge_result[o].cells = CellsOfInputs(absorbed[o])
        /\ \A o \in 2..Len(absorbed) : absorbed[o - 1][1] < absorbed[o][1]
        /\ \A k \in DOMAIN zones0 :
            StartsZone(k) => \E o \in DOMAIN absorbed : absorbed[o][1] = k
        /\ Chain => absorbed = <<<<1, 2>>, <<3>>>>

C22_Witness ==
    /\ BoxesMerged
    /\ Chain
    /\ max_gap = 1
    /\ Len(merge_result) = 2
    /\ are_zones_adjacent(UnionOfInputs(1, 2), zones0[3].bounds, max_gap)

\* C23 - Repeated merge passes stabilise: from one pass to the next the
\* zone count never goes up, it goes down in at most N - 1 passes, N the
\* count before the first pass, and after a pass that left the count as it
\* was no two zones of the list are adjacent for are_zones_adjacent with
\* the max_gap of the passes.
C23_PassesStabilise ==
    (entry = "merge" /\ counts # <<>>) =>
        /\ \A k \in 1..(Len(counts) - 1) : counts[k + 1] <= counts[k]
        /\ Cardinality({k \in 1..(Len(counts) - 1) : counts[k + 1] < counts[k]})
              <= IF counts[1] = 0 THEN 0 ELSE counts[1] - 1
        /\ (pc = "done" /\ counts[Len(counts)] = counts[Len(counts) - 1]) =>
              \A a, b \in DOMAIN merge_result :
                  a # b => ~are_zones_adjacent(merge_result[a].bounds,
                                               merge_result[b].bounds, max_gap)

C23_Witness ==
    /\ entry = "merge" /\ pc = "done"
    /\ counts = <<3, 2, 1, 1>>
    /\ max_gap = 1

\* C28 - merge_zones does not modify its input: when it has returned on a
\* list of two or more zones, every zone of the list has the cells, the
\* bounds and the labels it had when the list was passed.
C28_InputUnmodified ==
    (MergeReturned /\ Len(zones0) >= 2) =>
        \A k \in DOMAIN zones0 :
            /\ zones[k].cells = zones0[k].cells
            /\ zones[k].bounds = zones0[k].bounds
            /\ zones[k].labels = zones0[k].labels

\* ------------------------------------------------------------ the walks, 2
\* The role the walk in progress collects, and the position its next
\* iteration looks at.
WalkRole == IF pc = "walk_h" THEN "horizontal" ELSE "vertical"
WalkPos  == IF pc = "walk_h" THEN <<check, wcol>> ELSE <<wrow, check>>

\* The step is an iteration of the loop of a walk.
WalkIteration == entry = "walk" /\ pc \in {"walk_h", "walk_v"} /\ wsteps' = wsteps + 1

\* C27 - Pair switching in the walk: an iteration that meets a same-role
\* label of a pair other than the current one appends that label and makes
\* its pair the current pair, the walk going on; an iteration that meets an
\* opposite-role label ends the walk exactly when that label's pair is the
\* pair of the label collected last.
C27_PairSwitching ==
    [][WalkIteration =>
        (WalkPos \in DOMAIN label_map =>
            LET label == label_map[WalkPos]
            IN /\ (/\ label.direction = WalkRole
                   /\ wlabels # <<>>
                   /\ label.pair_id # wlabels[Len(wlabels)].pair_id) =>
                      /\ Len(wlabels') = Len(wlabels) + 1
                      /\ SubSeq(wlabels', 1, Len(wlabels)) = wlabels
                      /\ wlabels'[Len(wlabels')].pair_id = label.pair_id
                      /\ <<wlabels'[Len(wlabels')].row, wlabels'[Len(wlabels')].col>>
                            = WalkPos
                      /\ current_pair_id' = label.pair_id
                      /\ ~wbroke'
               /\ label.direction = Opposite(WalkRole) =>
                      /\ wlabels' = wlabels
                      /\ wbroke' <=> /\ wlabels # <<>>
                                     /\ label.pair_id = wlabels[Len(wlabels)].pair_id)]_vars

\* A walk that collected a label of one pair, then one of another pair,
\* passed the partner of the first pair and collected a label behind it.
C27_Witness ==
    /\ WalksReturned
    /\ \E own \in Roles :
        /\ Len(Returned(own)) >= 3
        /\ Returned(own)[1].pair_id # Returned(own)[2].pair_id
        /\ \E d \in 1..AxisLen(own) :
              /\ HasRole(own, d, Opposite(own))
              /\ PairAt(own, d) = Returned(own)[1].pair_id
              /\ Returned(own)[2].distance < d
              /\ d < Returned(own)[3].distance

\* C29 - The stop rule cannot fire before a label is collected: a walk
\* that has collected nothing has not been ended by a stop, and a walk on
\* whose axis a same-role label lies returns the nearest one first, whatever
\* lies between it and the walked cell.
C29_NearestAlwaysReturned ==
    entry = "walk" =>
        /\ wlabels = <<>> => ~wbroke
        /\ pc = "done" =>
              \A own \in Roles :
                  OwnAt(own) # {} =>
                      /\ Returned(own) # <<>>
                      /\ Returned(own)[1].distance = MinOf(OwnAt(own))

\* A walk whose nearest same-role label lies behind an opposite-role label
\* and a cell without label.
C29_Witness ==
    /\ WalksReturned
    /\ \E own \in Roles :
        /\ Returned(own) # <<>>
        /\ Returned(own)[1].distance >= 3
        /\ \E d \in 1..(Returned(own)[1].distance - 1) :
              HasRole(own, d, Opposite(own))
        /\ \E d \in 1..(Returned(own)[1].distance - 1) :
              AxisPos(own, d) \notin DOMAIN label_map

\* ------------------------------------------------------------ the session
\* C24 - Color index invalidation: whatever the user does, the detection
\* stored for a sheet was run with a Color Index built from the workbook
\* it was run on, never with one kept from a workbook loaded before.
C24_IndexOfLoadedWorkbook ==
    entry = "session" =>
        \A sheet \in DOMAIN all_sheets_zones :
            all_sheets_zones[sheet].color_cells.book
                = all_sheets_zones[sheet].workbook

\* The colors of a stored palette.
PaletteColors(palette) ==
    {palette.zone_color}
        \cup {palette.label_pairs[k].horizontal.color : k \in DOMAIN palette.label_pairs}
        \cup {palette.label_pairs[k].vertical.color : k \in DOMAIN palette.label_pairs}

\* C25 - Palette distinctness enforced before the core runs: a run stores
\* a palette only when it is a validation whose form holds all num_pairs
\* pairs, the zone color and the two colors of every pair being pairwise
\* distinct; a run whose validation is rejected leaves the palette as it was.
C25_PaletteSetByValidation ==
    [][entry = "session" =>
        /\ (HasPalette' /\ (~HasPalette \/ color_palette' # color_palette)) =>
              /\ validation' = "accepted"
              /\ Len(color_palette'.label_pairs) = num_pairs'
              /\ Cardinality(PaletteColors(color_palette'))
                    = 1 + 2 * num_pairs'
        /\ validation' = "rejected" =>
              /\ HasPalette' <=> HasPalette
              /\ HasPalette => color_palette' = color_palette]_vars

\* A palette of two pairs has just been accepted.
C25_Witness ==
    /\ entry = "session"
    /\ validation = "accepted"
    /\ num_pairs = 2
    /\ HasPalette
    /\ Len(color_palette.label_pairs) = 2

\* ------------------------------------------------------------- the export
\* The export has been made and its text read again.
Reread == entry \in Exporters /\ pc = "done"

IsInt(x, n) == x.t = "int" /\ x.n = n
IsStr(x, s) == x.t = "str" /\ x.s = s

\* C26 - Export round trip: in the document read from the exported text,
\* every zone has the bounds and the cell_count of the zone it was made
\* from, and one cell for each cell of that zone, in order, with its row,
\* its col, and the string form of its value as value.
C26_ExportRoundTrip ==
    Reread =>
        LET exported == Get(reread, "zones")
        IN /\ exported.t = "list"
           /\ Len(exported.items) = Len(zones)
           /\ \A k \in DOMAIN zones :
                LET z == exported.items[k]
                    b == Get(z, "bounds")
                    c == Get(z, "cells")
                IN /\ IsInt(Get(b, "min_row"), zones[k].bounds.min_row)
                   /\ IsInt(Get(b, "max_row"), zones[k].bounds.max_row)
                   /\ IsInt(Get(b, "min_col"), zones[k].bounds.min_col)
                   /\ IsInt(Get(b, "max_col"), zones[k].bounds.max_col)
                   /\ IsInt(Get(z, "cell_count"), zones[k].cell_count)
                   /\ c.t = "list"
                   /\ Len(c.items) = Len(zones[k].cells)
                   /\ \A j \in DOMAIN zones[k].cells :
                        /\ IsInt(Get(c.items[j], "row"), zones[k].cells[j].row)
                        /\ IsInt(Get(c.items[j], "col"), zones[k].cells[j].col)
                        /\ IsStr(Get(c.items[j], "value"), Str(zones[k].cells[j].value))

\* A zone of two cells was exported by export_to_json_with_four_colors and
\* read again, one of its values being a number and one a string with a
\* quote and a backslash, in a column of two letters.
C26_Witness ==
    /\ Reread
    /\ entry = "export_to_json_with_four_colors"
    /\ Len(zones) = 1
    /\ Len(zones[1].cells) = 2
    /\ zones[1].cells[1].value.t = "int"
    /\ "\\" \in Range(zones[1].cells[2].value.s)
    /\ zones[1].cells[2].col > 26

\* ---------------------------------------------------------- the resolver, 2
\* The cell a label record was measured from: the cell of its column that
\* lies distance rows below it, or of its row distance columns right of it.
Walker(label) ==
    IF label.direction = "horizontal"
    THEN <<label.row + label.distance, label.col>>
    ELSE <<label.row, label.col + label.distance>>

\* The cells of the zone, by their index in zone['cells'], whose walks
\* returned the header cell of the record.
Seers(zc, label) ==
    {j \in DOMAIN zc :
        \E e \in DOMAIN sighted :
            /\ LabelKey(sighted[e]) = LabelKey(label)
            /\ Walker(sighted[e]) = zc[j]}

\* The distance of a seer to the header cell of the record.
SeerDistance(cell, label) ==
    IF label.direction = "horizontal" THEN Row(cell) - label.row
    ELSE Col(cell) - label.col

\* C30 - Distance kept by the zone label list: the returned list holds at
\* most one record per (row, col, direction, pair_id); the record was
\* measured from the first cell, in the order of zone['cells'], among the
\* cells whose walks returned the header cell, so its distance is that of
\* the nearest of these cells only when the nearest is also the first.
C30_DistanceOfFirstCell ==
    ZoneResolved =>
        LET zc == zones[zi - 1].cells
        IN /\ \A k, m \in DOMAIN ReturnedLabels :
                LabelKey(ReturnedLabels[k]) = LabelKey(ReturnedLabels[m]) => k = m
           /\ \A k \in DOMAIN ReturnedLabels :
                LET label == ReturnedLabels[k]
                    seers == Seers(zc, label)
                IN /\ seers # {}
                   /\ Walker(label) = zc[MinOf(seers)]
                   /\ \A j \in seers :
                        (SeerDistance(zc[j], label) < label.distance) => j > MinOf(seers)

\* A zone whose label list holds a record measured from a cell that is not
\* the nearest of the cells whose walks returned the header cell.
C30_Witness ==
    /\ ZoneResolved
    /\ \E k \in DOMAIN ReturnedLabels :
          \E j \in Seers(zones[zi - 1].cells, ReturnedLabels[k]) :
              SeerDistance(zones[zi - 1].cells[j], ReturnedLabels[k])
                  < ReturnedLabels[k].distance

====
